---- MODULE Spec2Model ----
(***************************************************************************)
(* Model of kairu's animation scheduler (src/kairu/anim_controller.py)     *)
(* and of the data it walks (src/kairu/structs.py).                        *)
(*                                                                         *)
(* One step of the model is one uninterrupted run of code on the asyncio   *)
(* event loop: a call of a public method of AnimController, or one resume  *)
(* of an animation task from the await it is suspended at up to its next   *)
(* await (or its end).  Time is in milliseconds.                           *)
(***************************************************************************)
EXTENDS Integers, Sequences, FiniteSets, TLC

(***************************************************************************)
(* Bounds of the model.                                                    *)
(***************************************************************************)
MaxTasks == 2          \* animation tasks created in one behaviour
MaxSays  == 2          \* dialogues started in one behaviour
MaxBranches == 2       \* branches of a frame in the calls of pick_jump_destination
MaxLen == 5            \* bytes of a sequence given to the compressor

(***************************************************************************)
(* Program constants.                                                      *)
(***************************************************************************)
StopAnimation == "Stop Animation"
Stop          == "Stop"

USE_RETURN_ANIMATION == 0
USE_EXIT_BRANCHES    == 1
NO_TRANSITION        == 2

SLICE          == 50      \* min(0.05, start_delay), in ms
REAPPEAR_DELAY == 500     \* start_delay of the reappear animation, in ms
IDLE_DELAY_MIN == 1000    \* rand.uniform(1, 4), in ms
IDLE_DELAY_MAX == 4000
RAND_RANGE     == 100     \* rand.randrange(0, 100)

\* Python's None where an integer is expected (jump targets are unsigned).
None == -1
\* Python's None where an animation is expected.
NoAnim == "<None>"
\* A cancellation requested without a message: CancelledError().args == ().
NoReason == "<no reason>"
\* A cancellation message that is neither StopAnimation nor Stop.
OtherReason == "Other"
Reasons == {StopAnimation, Stop, NoReason, OtherReason}

Min(a, b) == IF a < b THEN a ELSE b

(***************************************************************************)
(* The compression codec (_image_decompression.py).  A byte is 0 .. 255, a *)
(* bit 0 or 1; data and outputs are sequences of bytes.                    *)
(***************************************************************************)
RECURSIVE BitAnd(_, _)
\* a & b
BitAnd(a, b) ==
  IF a = 0 \/ b = 0 THEN 0
  ELSE (a % 2) * (b % 2) + 2 * BitAnd(a \div 2, b \div 2)

RECURSIVE BitOr(_, _)
\* a | b
BitOr(a, b) ==
  IF a = 0 THEN b ELSE IF b = 0 THEN a
  ELSE (IF a % 2 = 1 \/ b % 2 = 1 THEN 1 ELSE 0) + 2 * BitOr(a \div 2, b \div 2)

\* _reverse_bits that swaps the two halves of the byte only
_reverse_bits_nibbles(b) ==
  BitOr(BitAnd(b \div 16, 15), BitAnd(b * 16, 240))

\* _reverse_bits: halves, then pairs, then neighbours are swapped
_reverse_bits(b) ==
  LET b1 == BitOr(BitAnd(b \div 16, 15), BitAnd(b * 16, 240))
      b2 == BitOr(BitAnd(b1 \div 4, 51), BitAnd(b1 * 4, 204))
  IN BitOr(BitAnd(b2 \div 2, 85), BitAnd(b2 * 2, 170))

\* the bits of a byte as BitStream reads them: most significant first
ByteBits(b) == [i \in 1 .. 8 |-> (b \div (2 ^ (8 - i))) % 2]

RECURSIVE StreamOf(_)
\* _BitStream(data): the bits of the bytes one after the other
StreamOf(data) ==
  IF data = << >> THEN << >> ELSE ByteBits(Head(data)) \o StreamOf(Tail(data))

RECURSIVE read_forward(_, _, _)
\* read_rev whose first bit read is the most significant
read_forward(stream, pos, count) ==
  IF count = 0 THEN 0
  ELSE stream[pos + 1] * 2 ^ (count - 1) + read_forward(stream, pos + 1, count - 1)

RECURSIVE read_rev(_, _, _)
\* _BitStream.read_rev(count) at position pos (the caller checks that count
\* bits are left): the first bit read is the least significant
read_rev(stream, pos, count) ==
  IF count = 0 THEN 0
  ELSE stream[pos + 1] + 2 * read_rev(stream, pos + 1, count - 1)

RECURSIVE count_consecutive_ones(_, _, _)
\* _BitStream.count_consecutive_ones(limit) at position pos: the count, the
\* bits read (the 0 that ends the run is read too), and whether the
\* stream ended before the run did (ReadError)
count_consecutive_ones(stream, pos, limit) ==
  IF limit = 0 THEN [count |-> 0, read |-> 0, ok |-> TRUE]
  ELSE IF pos >= Len(stream) THEN [count |-> 0, read |-> 0, ok |-> FALSE]
  ELSE IF stream[pos + 1] = 0 THEN [count |-> 0, read |-> 1, ok |-> TRUE]
  ELSE LET rest == count_consecutive_ones(stream, pos + 1, limit - 1)
       IN [count |-> rest.count + 1, read |-> rest.read + 1, ok |-> rest.ok]

\* the offsets to add of a format whose classes start at powers of two
_OFFSET_TO_ADD_POWERS == << 1, 65, 513, 4097 >>

_VALUE_BIT_COUNT == << 6, 9, 12, 20 >>
_OFFSET_TO_ADD   == << 1, 65, 577, 4673 >>
END_OF_STREAM    == 1048575      \* 0x000FFFFF
FIRST_RUN_LIMIT  == 3
SECOND_RUN_LIMIT == 12

\* decompress ended by an exception
Failed == [ok |-> FALSE, bytes |-> << >>]

\* indexing that goes round the array when the index is past its end
PositionAround(i, n) ==
  IF i >= 0 /\ i < n THEN i + 1
  ELSE IF i < 0 /\ i + n >= 0 THEN i + n + 1
  ELSE IF i >= n /\ n > 0 THEN (i % n) + 1
  ELSE 0

\* numpy's out[i] on an array of n elements: a negative index counts from
\* the end; 0 stands for an index out of range
Position(i, n) ==
  IF i >= 0 /\ i < n THEN i + 1
  ELSE IF i < 0 /\ i + n >= 0 THEN i + n + 1
  ELSE 0

\* the copy as one slice assignment, out[out_pos:out_pos+count] =
\* out[source_idx:source_idx+count]: the bytes are those before the copy
CopyBlock(out, out_pos, source_idx, count) ==
  IF \E i \in 0 .. count - 1 : Position(out_pos + i, Len(out)) = 0
                                 \/ Position(source_idx + i, Len(out)) = 0
  THEN [ok |-> FALSE, out |-> out]
  ELSE [ok |-> TRUE,
        out |-> [j \in 1 .. Len(out) |->
                   IF j - 1 >= out_pos /\ j - 1 < out_pos + count
                   THEN out[Position(source_idx + (j - 1 - out_pos), Len(out))]
                   ELSE out[j]]]

RECURSIVE CopyBytes(_, _, _, _)
\* for i in range(count): out[out_pos + i] = out[source_idx + i]
\* (the first half of the iterations, then the rest, so that the depth of
\* the evaluation stays small for long copies)
CopyBytes(out, out_pos, source_idx, count) ==
  IF count = 0 THEN [ok |-> TRUE, out |-> out]
  ELSE IF count = 1
  THEN IF Position(out_pos, Len(out)) = 0 \/ Position(source_idx, Len(out)) = 0
       THEN [ok |-> FALSE, out |-> out]
       ELSE [ok |-> TRUE,
             out |-> [out EXCEPT ![Position(out_pos, Len(out))] =
                                    out[Position(source_idx, Len(out))]]]
  ELSE LET half  == count \div 2
           first == CopyBytes(out, out_pos, source_idx, half)
       IN IF ~first.ok THEN first
          ELSE CopyBytes(first.out, out_pos + half, source_idx + half, count - half)

\* a decoder that takes no offset field for the end of the stream
NoEndOfStream(val_bit_count, field) == FALSE

\* lines 74-76: is the offset field read the end of the stream?
IsEndOfStream(val_bit_count, field) ==
  val_bit_count = 20 /\ field = END_OF_STREAM

\* lines 69-87 as they run when assert statements are compiled away
CopyTokenUnasserted(stream, pos) ==
  LET run1 == count_consecutive_ones(stream, pos, FIRST_RUN_LIMIT)
      val_bit_count == _VALUE_BIT_COUNT[run1.count + 1]
      pos1   == pos + run1.read
      field  == read_rev(stream, pos1, val_bit_count)
      pos2   == pos1 + val_bit_count
      run2   == count_consecutive_ones(stream, pos2, SECOND_RUN_LIMIT)
      pos3   == pos2 + run2.read
  IN IF ~run1.ok \/ pos1 + val_bit_count > Len(stream) THEN [kind |-> "error"]
     ELSE IF IsEndOfStream(val_bit_count, field) THEN [kind |-> "end"]
     ELSE IF ~run2.ok THEN [kind |-> "error"]
     ELSE IF pos3 + run2.count > Len(stream) THEN [kind |-> "error"]
     ELSE [kind |-> "copy", offset |-> field + _OFFSET_TO_ADD[run1.count + 1],
           bytes_to_be_decoded |-> (IF val_bit_count = 20 THEN 3 ELSE 2)
                                     + (2 ^ run2.count - 1)
                                     + read_rev(stream, pos3, run2.count),
           pos |-> pos3 + run2.count]

\* lines 69-87 at bit position pos, after the flag bit of a copy: the
\* end of the stream, an exception (ReadError, the assert), or the offset
\* and the number of bytes to copy and the position after the token
CopyToken(stream, pos) ==
  LET run1 == count_consecutive_ones(stream, pos, FIRST_RUN_LIMIT)
      seq_bits_1    == run1.count
      val_bit_count == _VALUE_BIT_COUNT[seq_bits_1 + 1]
      pos1   == pos + run1.read
      field  == read_rev(stream, pos1, val_bit_count)
      pos2   == pos1 + val_bit_count
      least  == IF val_bit_count = 20 THEN 3 ELSE 2
      offset == field + _OFFSET_TO_ADD[seq_bits_1 + 1]
      run2   == count_consecutive_ones(stream, pos2, SECOND_RUN_LIMIT)
      seq_bits_2 == run2.count
      pos3   == pos2 + run2.read
      add1   == 2 ^ seq_bits_2 - 1
      add2   == read_rev(stream, pos3, seq_bits_2)
  IN IF ~run1.ok \/ pos1 + val_bit_count > Len(stream) THEN [kind |-> "error"]
     ELSE IF IsEndOfStream(val_bit_count, field) THEN [kind |-> "end"]
     ELSE IF ~run2.ok \/ seq_bits_2 = SECOND_RUN_LIMIT THEN [kind |-> "error"]
     ELSE IF pos3 + seq_bits_2 > Len(stream) THEN [kind |-> "error"]
     ELSE [kind |-> "copy", offset |-> offset,
           bytes_to_be_decoded |-> least + add1 + add2, pos |-> pos3 + seq_bits_2]

RECURSIVE DecodeLoop(_, _, _, _)
\* the loop of decompress (lines 57-94) from bit position pos on;
\* total_decoded_count and out_pos are equal throughout
DecodeLoop(stream, pos, out, total_decoded_count) ==
  IF pos >= Len(stream)
  THEN [ok |-> TRUE, bytes |-> SubSeq(out, 1, Min(total_decoded_count, Len(out)))]
  ELSE IF stream[pos + 1] = 0
  THEN \* one byte that is not compressed
       IF pos + 1 + 8 > Len(stream) THEN Failed
       ELSE IF Position(total_decoded_count, Len(out)) = 0 THEN Failed
       ELSE DecodeLoop(stream, pos + 9,
                       [out EXCEPT ![total_decoded_count + 1] = read_rev(stream, pos + 1, 8)],
                       total_decoded_count + 1)
  ELSE \* a copy of bytes decoded already
       LET tok        == CopyToken(stream, pos + 1)
           source_idx == total_decoded_count - tok.offset
           copied == CopyBytes(out, total_decoded_count, source_idx, tok.bytes_to_be_decoded)
       IN IF tok.kind = "error" THEN Failed
          ELSE IF tok.kind = "end"
          THEN [ok |-> TRUE, bytes |-> SubSeq(out, 1, Min(total_decoded_count, Len(out)))]
          ELSE IF ~copied.ok THEN Failed
          ELSE DecodeLoop(stream, tok.pos, copied.out,
                          total_decoded_count + tok.bytes_to_be_decoded)

\* decompress that reads the data without reversing the bits of its bytes fully
decompress_half_reversed(data, buffer_size) ==
  LET stream == StreamOf([i \in 1 .. Len(data) |-> _reverse_bits_nibbles(data[i])])
  IN IF Len(stream) < 8 THEN Failed
     ELSE DecodeLoop(stream, 8, [i \in 1 .. buffer_size |-> 0], 0)

\* decompress(data, buffer_size): [ok, bytes]
decompress(data, buffer_size) ==
  LET stream == StreamOf([i \in 1 .. Len(data) |-> _reverse_bits(data[i])])
  IN IF Len(stream) < 8 THEN Failed
     ELSE DecodeLoop(stream, 8, [i \in 1 .. buffer_size |-> 0], 0)

\* decompress_paletted_image ended by an exception
NoRaster == [ok |-> FALSE, rows |-> << >>]

\* decompress_paletted_image(data, size, compressed, extra_width): the
\* rows of the raster from the top one; numpy's reshape raises ValueError
\* unless the array holds h * w elements
decompress_paletted_image(data, size, compressed, extra_width) ==
  LET w == size[1] + extra_width
      h == size[2]
      decompressed == IF compressed THEN decompress(data, BitAnd(w + 3, 252) * h)
                      ELSE [ok |-> TRUE, bytes |-> data]
      expected_len == w * h
      cut == IF Len(decompressed.bytes) > expected_len
             THEN SubSeq(decompressed.bytes, 1, expected_len)
             ELSE decompressed.bytes
  IN IF ~decompressed.ok THEN NoRaster
     ELSE IF Len(cut) # h * w THEN NoRaster
     ELSE [ok |-> TRUE,
           rows |-> [r \in 1 .. h |-> [c \in 1 .. w |-> cut[(h - r) * w + c]]]]

(***************************************************************************)
(* A reference compressor for the format: a header byte, then for every    *)
(* stretch of the input a literal token or a back-reference token, then    *)
(* the end-of-stream token; the bits fill each byte from its least         *)
(* significant bit and the last byte is padded with 0 bits.                *)
(***************************************************************************)
\* count bits of v, the least significant first
LsbBits(v, count) == [i \in 1 .. count |-> (v \div (2 ^ (i - 1))) % 2]

Ones(count) == [i \in 1 .. count |-> 1]

Literal(b) == [kind |-> "literal", byte |-> b, offset |-> 0, length |-> 1]
BackReference(d, l) == [kind |-> "copy", byte |-> 0, offset |-> d, length |-> l]

\* may the length bytes of x from position p on (0-based) be copied from
\* offset bytes back?
Repeats(x, p, offset, length) ==
  \A i \in 0 .. length - 1 : x[p + i + 1] = x[p + i - offset + 1]

RECURSIVE Tokenisations(_, _)
\* the token sequences that stand for x from position p on
Tokenisations(x, p) ==
  IF p >= Len(x) THEN { << >> }
  ELSE { << Literal(x[p + 1]) >> \o rest : rest \in Tokenisations(x, p + 1) }
       \cup UNION { { << BackReference(c[1], c[2]) >> \o rest :
                        rest \in Tokenisations(x, p + c[2]) } :
                      c \in { c \in (1 .. p) \X (2 .. Len(x) - p) :
                                Repeats(x, p, c[1], c[2]) } }

\* the class of a copy distance: the number of 1-bits of the first run
OffsetClass(d) == IF d < 65 THEN 0 ELSE IF d < 577 THEN 1 ELSE IF d < 4673 THEN 2 ELSE 3

\* the number of 1-bits of the second run for extra bytes beyond the least
\* length: the m with 2^m - 1 <= extra < 2^(m+1) - 1
LengthClass(extra) == CHOOSE m \in 0 .. 11 : 2 ^ m - 1 <= extra /\ extra < 2 ^ (m + 1) - 1

TokenBits(tok) ==
  IF tok.kind = "literal" THEN << 0 >> \o LsbBits(tok.byte, 8)
  ELSE LET k     == OffsetClass(tok.offset)
           extra == tok.length - (IF k = 3 THEN 3 ELSE 2)
           m     == LengthClass(extra)
       IN << 1 >> \o Ones(k) \o (IF k < 3 THEN << 0 >> ELSE << >>)
            \o LsbBits(tok.offset - _OFFSET_TO_ADD[k + 1], _VALUE_BIT_COUNT[k + 1])
            \o Ones(m) \o << 0 >> \o LsbBits(extra - (2 ^ m - 1), m)

RECURSIVE TokensBits(_)
TokensBits(toks) ==
  IF toks = << >> THEN << >> ELSE TokenBits(Head(toks)) \o TokensBits(Tail(toks))

EndOfStreamBits == << 1 >> \o Ones(3) \o LsbBits(END_OF_STREAM, 20)

RECURSIVE PackBits(_)
\* the bytes of a bit sequence, 8 bits a byte, the first bit the lowest
PackBits(bits) ==
  IF bits = << >> THEN << >>
  ELSE LET padded == IF Len(bits) < 8 THEN bits \o [i \in 1 .. 8 - Len(bits) |-> 0] ELSE bits
           byte   == padded[1] + 2 * padded[2] + 4 * padded[3] + 8 * padded[4]
                     + 16 * padded[5] + 32 * padded[6] + 64 * padded[7] + 128 * padded[8]
       IN << byte >> \o PackBits(SubSeq(padded, 9, Len(padded)))

\* the compressed sequence for the tokens toks after the header byte
compress(header, toks) ==
  PackBits(LsbBits(header, 8) \o TokensBits(toks) \o EndOfStreamBits)

(***************************************************************************)
(* Compressed sequences written token by token, the malformed ones too.    *)
(***************************************************************************)
\* a back-reference token by its fields: k 1-bits in the first run, the
\* offset field, m 1-bits in the second run, the value of the m bits after it
RawCopy(k, field, m, add2) ==
  [kind |-> "raw", k |-> k, field |-> field, m |-> m, add2 |-> add2]

EndOfStream == [kind |-> "end"]

\* the bits of a token; a run that reaches its limit has no 0 after it
RawTokenBits(tok) ==
  IF tok.kind = "literal" THEN << 0 >> \o LsbBits(tok.byte, 8)
  ELSE IF tok.kind = "end" THEN EndOfStreamBits
  ELSE << 1 >> \o Ones(tok.k) \o (IF tok.k < FIRST_RUN_LIMIT THEN << 0 >> ELSE << >>)
         \o LsbBits(tok.field, _VALUE_BIT_COUNT[tok.k + 1])
         \o Ones(tok.m) \o (IF tok.m < SECOND_RUN_LIMIT THEN << 0 >> ELSE << >>)
         \o LsbBits(tok.add2, tok.m)

RECURSIVE RawTokensBits(_)
RawTokensBits(toks) ==
  IF toks = << >> THEN << >> ELSE RawTokenBits(Head(toks)) \o RawTokensBits(Tail(toks))

\* the bytes of the header, the tokens and the bits after them
RawData(header, toks, tail) ==
  PackBits(LsbBits(header, 8) \o RawTokensBits(toks) \o tail)

\* bit s (from 0) of the data as the decoder meets it: the bits of a byte
\* from the least significant one
DataBit(data, s) == (data[s \div 8 + 1] \div (2 ^ (s % 8))) % 2

(***************************************************************************)
(* Buffer (buffer.py).  The root is a sequence of bytes; a Buffer is the   *)
(* part of the root its memoryview covers (len bytes from start on, start  *)
(* counted from 0), its cursor pos and its _abs_offset.  An operation      *)
(* gives [ok, value, b]: whether it returned, what, and the Buffer after.  *)
(***************************************************************************)
Buffer(start, len, abs_offset, pos) ==
  [start |-> start, len |-> len, abs_offset |-> abs_offset, pos |-> pos]

\* Buffer(mv, mv, 0) on the whole root
RootBuffer(root) == Buffer(0, Len(root), 0, 0)

\* the bytes of the view
Mv(root, b) == SubSeq(root, b.start + 1, b.start + b.len)

\* b[k:] for k >= 0: slicing a memoryview clamps the bounds to its length
Slice(b, k) ==
  LET from == IF k < b.len THEN k ELSE b.len
  IN Buffer(b.start + from, b.len - from, b.abs_offset + k, 0)

\* read(): mv[pos] raises IndexError beyond the view, before pos changes
read(root, b) ==
  IF b.pos < b.len
  THEN [ok |-> TRUE, value |-> root[b.start + b.pos + 1], b |-> [b EXCEPT !.pos = @ + 1]]
  ELSE [ok |-> FALSE, value |-> "IndexError", b |-> b]

\* read_bytes(length): the slice mv[pos:pos+length] holds the bytes there
\* are of it, and pos moves by length
read_bytes(root, b, length) ==
  LET lo == IF b.pos < b.len THEN b.pos ELSE b.len
      hi == IF b.pos + length < b.len THEN b.pos + length ELSE b.len
  IN [ok |-> TRUE,
      value |-> SubSeq(root, b.start + lo + 1, b.start + hi),
      b |-> [b EXCEPT !.pos = @ + length]]

RECURSIVE from_bytes(_)
\* int.from_bytes(data, 'little')
from_bytes(data) ==
  IF data = << >> THEN 0 ELSE Head(data) + 256 * from_bytes(Tail(data))

\* read_integer(length)
read_integer(root, b, length) ==
  LET r == read_bytes(root, b, length)
  IN IF r.ok THEN [r EXCEPT !.value = from_bytes(r.value)] ELSE r

read_ushort(root, b) == read_integer(root, b, 2)

read_ulong(root, b) == read_integer(root, b, 4)

\* skip(count)
skip(b, count) == [b EXCEPT !.pos = @ + count]

\* read_string(): the count, a read_ushort for every character, and two
\* bytes skipped when the count is not 0. The value is a string of length
\* characters: the code units that were read from at least one byte of the
\* view, then chr(0) for every read_ushort that found no byte
read_string(root, b) ==
  LET n == read_ulong(root, b)
      left == IF n.b.pos < n.b.len THEN n.b.len - n.b.pos ELSE 0
      found == IF n.value < (left + 1) \div 2 THEN n.value ELSE (left + 1) \div 2
      unit(i) == read_ushort(root, [n.b EXCEPT !.pos = @ + 2 * (i - 1)])
  IN [ok |-> TRUE,
      value |-> [length |-> n.value, units |-> [i \in 1 .. found |-> unit(i).value]],
      b |-> IF n.value > 0 THEN skip([n.b EXCEPT !.pos = @ + 2 * n.value], 2)
            ELSE n.b]

\* locator that takes the address from the start of its own view
locator_in_view(root, b, sized) ==
  LET address == read_ulong(root, b)
      size    == read_ulong(root, address.b)
  IN IF address.value + size.value > b.len
     THEN [ok |-> FALSE, value |-> "IndexError", b |-> size.b]
     ELSE [ok |-> TRUE,
           value |-> Buffer(b.start + address.value, size.value,
                            b.abs_offset + address.value, 0),
           b |-> size.b]

\* locator(sized): the value is the new Buffer on the root, b the Buffer
\* it was called on, after its two reads
locator(root, b, sized) ==
  LET address == read_ulong(root, b)
      size    == read_ulong(root, address.b)
  IN IF ~address.ok THEN address
     ELSE IF ~size.ok THEN size
     ELSE IF address.value + size.value > Len(root)
     THEN [ok |-> FALSE, value |-> "IndexError", b |-> size.b]
     ELSE [ok |-> TRUE,
           value |-> IF sized THEN Buffer(address.value, size.value, address.value, 0)
                     ELSE Buffer(address.value, Len(root) - address.value,
                                 address.value, 0),
           b |-> size.b]

(***************************************************************************)
(* Strings.  A string is a TLA+ string; the operations the code applies to *)
(* strings (startswith, lower, slicing) are computed on its characters.    *)
(***************************************************************************)
Chars(s) ==
  CASE s = ""          -> <<>>
    [] s = "GREET"     -> <<"G","R","E","E","T">>
    [] s = "LOOK"      -> <<"L","O","O","K">>
    [] s = "LOST"      -> <<"L","O","S","T">>
    [] s = "HIDE"      -> <<"H","I","D","E">>
    [] s = "SHOW"      -> <<"S","H","O","W">>
    [] s = "Idle1"     -> <<"I","d","l","e","1">>
    [] s = "idle1"     -> <<"i","d","l","e","1">>
    [] s = "NOWHERE"   -> <<"N","O","W","H","E","R","E">>
    [] s = "SHOWING"   -> <<"S","H","O","W","I","N","G">>
    [] s = "#SHOWING"  -> <<"#","S","H","O","W","I","N","G">>
    [] s = "GONE"      -> <<"G","O","N","E">>
    [] s = "#GONE"     -> <<"#","G","O","N","E">>
    [] s = "greet"     -> <<"g","r","e","e","t">>
    [] s = "look"      -> <<"l","o","o","k">>
    [] s = "lost"      -> <<"l","o","s","t">>
    [] s = "hide"      -> <<"h","i","d","e">>
    [] s = "show"      -> <<"s","h","o","w">>
    [] s = "idle"      -> <<"i","d","l","e">>
    [] s = "#"         -> <<"#">>
    [] s = "WAVE"      -> <<"W","A","V","E">>
    [] s = "wave"      -> <<"w","a","v","e">>
    [] s = "GOODBYE"   -> <<"G","O","O","D","B","Y","E">>
    [] s = "goodbye"   -> <<"g","o","o","d","b","y","e">>
    [] s = "MOVING"    -> <<"M","O","V","I","N","G">>
    [] s = "#MOVING"   -> <<"#","M","O","V","I","N","G">>
    [] s = "EMPTY"     -> <<"E","M","P","T","Y">>
    [] s = "#EMPTY"    -> <<"#","E","M","P","T","Y">>
    [] s = "NOSTATE"   -> <<"N","O","S","T","A","T","E">>
    [] s = "#NOSTATE"  -> <<"#","N","O","S","T","A","T","E">>

Strings == {"", "GREET", "LOOK", "LOST", "HIDE", "SHOW", "Idle1", "idle1",
            "NOWHERE", "SHOWING", "#SHOWING", "GONE", "#GONE", "greet",
            "look", "lost", "hide", "show", "idle", "#", "WAVE", "wave",
            "GOODBYE", "goodbye", "MOVING", "#MOVING", "EMPTY", "#EMPTY",
            "NOSTATE", "#NOSTATE"}

Str(cs) == CHOOSE s \in Strings : Chars(s) = cs

LowerChar(c) ==
  CASE c = "G" -> "g" [] c = "R" -> "r" [] c = "E" -> "e" [] c = "T" -> "t"
    [] c = "L" -> "l" [] c = "O" -> "o" [] c = "K" -> "k" [] c = "S" -> "s"
    [] c = "H" -> "h" [] c = "I" -> "i" [] c = "D" -> "d" [] c = "W" -> "w"
    [] c = "N" -> "n" [] c = "A" -> "a" [] c = "V" -> "v" [] c = "B" -> "b"
    [] c = "Y" -> "y" [] c = "M" -> "m" [] c = "P" -> "p"
    [] OTHER -> c

\* str.lower()
lower(s) == Str([i \in 1..Len(Chars(s)) |-> LowerChar(Chars(s)[i])])

\* str.startswith(prefix)
startswith(s, prefix) ==
  /\ Len(Chars(prefix)) <= Len(Chars(s))
  /\ SubSeq(Chars(s), 1, Len(Chars(prefix))) = Chars(prefix)

\* s[1:]
DropFirst(s) == Str(Tail(Chars(s)))

(***************************************************************************)
(* The decoded entity graph the scheduler walks (immutable after load).    *)
(***************************************************************************)
BranchInfo(target, prob) == [jump_target_idx |-> target, prob_percent |-> prob]

FrameInfo(duration, exit, branches) ==
  [duration_centiseconds |-> duration, exit_index |-> exit, branch_infos |-> branches]

AnimInfo(n, tt, ret, fs) ==
  [name |-> n, transition_type |-> tt, return_anim_name |-> ret, frames |-> fs]

\* the animations decoded from the character file, by name
Animations ==
  ( "GREET" :> AnimInfo("GREET", NO_TRANSITION, "",
        << FrameInfo(10, 2, << BranchInfo(2, 30), BranchInfo(0, 40) >>),
           FrameInfo(0, -1, << >>),
           FrameInfo(5, 3, << BranchInfo(7, 50) >>) >>) ) @@
  ( "LOOK"  :> AnimInfo("LOOK", USE_RETURN_ANIMATION, "GREET",
        << FrameInfo(10, 1, << BranchInfo(0, 50) >>) >>) ) @@
  ( "LOST"  :> AnimInfo("LOST", USE_RETURN_ANIMATION, "NOWHERE",
        << FrameInfo(0, -1, << >>) >>) ) @@
  ( "HIDE"  :> AnimInfo("HIDE", USE_EXIT_BRANCHES, "",
        << FrameInfo(10, -1, << >>) >>) ) @@
  ( "SHOW"  :> AnimInfo("SHOW", NO_TRANSITION, "",
        << FrameInfo(10, -1, << >>) >>) ) @@
  ( "Idle1" :> AnimInfo("Idle1", NO_TRANSITION, "",
        << FrameInfo(10, 0, << >>) >>) ) @@
  ( "WAVE"  :> AnimInfo("WAVE", NO_TRANSITION, "",
        << FrameInfo(10, -1, << >>), FrameInfo(0, -1, << >>),
           FrameInfo(5, -1, << >>) >>) ) @@
  ( "GOODBYE" :> AnimInfo("GOODBYE", USE_EXIT_BRANCHES, "",
        << FrameInfo(0, -1, << >>) >>) )

\* pick_from comparing with <= : a draw equal to the cumulative sum selects
RECURSIVE pick_from_inclusive(_, _, _, _)
pick_from_inclusive(branch_infos, i, prob_sum, rand_value) ==
  IF i > Len(branch_infos) THEN None
  ELSE LET s == prob_sum + branch_infos[i].prob_percent IN
       IF rand_value <= s THEN branch_infos[i].jump_target_idx
       ELSE pick_from_inclusive(branch_infos, i + 1, s, rand_value)

\* FrameInfo.pick_jump_destination
RECURSIVE pick_from(_, _, _, _)
pick_from(branch_infos, i, prob_sum, rand_value) ==
  IF i > Len(branch_infos) THEN None
  ELSE LET s == prob_sum + branch_infos[i].prob_percent IN
       IF rand_value < s THEN branch_infos[i].jump_target_idx
       ELSE pick_from(branch_infos, i + 1, s, rand_value)

pick_jump_destination(frame, rand_value) ==
  pick_from(frame.branch_infos, 1, 0, rand_value)


(***************************************************************************)
(* State.                                                                  *)
(***************************************************************************)
VARIABLES
  speed,                             \* AnimController.speed
  no_idle,                           \* AnimController.no_idle
  idle_all_anims,                    \* AnimController.idle_all_anims
  do_not_skip_zero_duration_frames,  \* AnimController.do_not_skip_zero_duration_frames
  state_infos,                       \* AnimController.state_infos
  exit_requested,                    \* AnimController.exit_requested
  tasks,                             \* the animation tasks created so far, by id
  _anim_task,                        \* AnimController._anim_task (an AnimationTask)
  says,                              \* the dialogue futures created so far, by id
  _say_task,                         \* AnimController._say_task (id of its future)
  obs,                               \* what the last step did: hook calls, decisions
  jump,                              \* a call of FrameInfo.pick_jump_destination
  loaded,                            \* the keys of AnimController.anim_infos
  played,                            \* the tasks that have called backend.play_frame
  awaiter,                           \* a coroutine awaiting an AnimationTask
  search,                            \* a call of AnimController.search_animation
  codec,                             \* a call of decompress on a compressed sequence
  image,                             \* a call of decompress_paletted_image
  reading,                           \* a call of make_sure_image_cache_exists
  buf                                \* a Buffer, its root, and a call of a reader on it

config == << speed, no_idle, idle_all_anims, do_not_skip_zero_duration_frames, state_infos,
            loaded >>
vars == << speed, no_idle, idle_all_anims, do_not_skip_zero_duration_frames, state_infos,
           exit_requested, tasks, _anim_task, says, _say_task, obs, jump, loaded, played,
           awaiter, search, codec, image, reading, buf >>
\* the variables of the pure functions, which no scheduler step touches
pure == << jump, search, codec, image, reading, buf >>
\* the variables of the readers of the character file
files == << image, reading, buf >>
\* the variables of the observers of one playback
observers == << played, awaiter >>

\* AnimController.anim_infos: the animations the controller was given, by name
anim_infos == [n \in loaded |-> Animations[n]]

AnimNames == DOMAIN anim_infos

NoCall == << >>
\* task: the task the step resumed (0 when the step was a caller's call);
\* play_frame: the call of backend.play_frame it made, << task, anim, frame_idx >>;
\* next_idx, by: the frame_idx lines 233-237 computed and from what ("exit",
\* "sequence" or "rand"); handler: the reason the handler of line 255 saw;
\* button: the activation the backend reported, << dialogue, button, raises >>;
\* play_animation: whether play_animation ran (called by a caller or by
\* _play_idle_animation_later); slept: the length of the sleep of line 218
\* the step woke from (0 when it woke from none)
NoObs == [task |-> 0, play_frame |-> NoCall, next_idx |-> None, by |-> "",
          handler |-> "none", button |-> NoCall, play_animation |-> FALSE, slept |-> 0]

\* AnimationTask(anim_ctrl, task, animation, no_wait); task 0 is done_future(False)
AnimationTask(task, animation, no_wait) ==
  [task |-> task, animation |-> animation, no_wait |-> no_wait]

\* A task whose coroutine has ended; result is "true", "false" (the returned
\* value), "cancelled" (ended by CancelledError) or "error" (another exception).
DoneTask(res) ==
  [st |-> "done", anim |-> NoAnim, frame_idx |-> 0, start_delay |-> 0,
   starting_frame |-> 0, jump_sequence |-> << >>,
   play_idle_animation_afterwards |-> FALSE, reappear |-> FALSE,
   outer |-> << >>, cancel |-> "none", sticky |-> FALSE, result |-> res,
   wrapper |-> "none", wrapper_msg |-> "none"]

\* A task just made by create_task: the coroutine object holds its arguments.
NewTask(anim, play_idle, start_delay, starting_frame, jump_sequence, reappear) ==
  [st |-> "created", anim |-> anim, frame_idx |-> 0, start_delay |-> start_delay,
   starting_frame |-> starting_frame, jump_sequence |-> jump_sequence,
   play_idle_animation_afterwards |-> play_idle, reappear |-> reappear,
   outer |-> << >>, cancel |-> "none", sticky |-> FALSE, result |-> "none",
   wrapper |-> "none", wrapper_msg |-> "none"]

frames(anim) == Animations[anim].frames
frame_at(anim, idx) == frames(anim)[idx + 1]

\* sleep_seconds = frame.duration_centiseconds * self.speed / 100, kept in 1/100 s
sleep_centis(frame) == frame.duration_centiseconds * speed

\* Is the task suspended in asyncio.sleep(d) with d > 0 (a timer future) rather
\* than in a bare yield (sleep(0), or not started yet)?
OnTimer(T) ==
  \/ T.st = "delay"
  \/ T.st = "frame" /\ sleep_centis(frame_at(T.anim, T.frame_idx)) > 0

(***************************************************************************)
(* asyncio.Task.cancel(msg).  A finished task ignores it.  If the task     *)
(* waits on a pending timer future, that future is cancelled with msg and  *)
(* later requests cannot change the message (sticky); otherwise (bare      *)
(* yield, not started, or the timer has fired already) the task's          *)
(* _cancel_message is overwritten by each request.                         *)
(* The next step of a started task with a pending cancellation raises      *)
(* CancelledError at the await it is suspended at, whichever that is, and  *)
(* from there only the except and finally clauses of __play run, which     *)
(* read none of its locals: such a task is "unwinding", and its dead       *)
(* locals are dropped from the state.                                      *)
(***************************************************************************)
Unwinding(T) ==
  [T EXCEPT !.st = IF T.st = "created" THEN "created" ELSE "unwinding",
            !.anim = NoAnim, !.frame_idx = 0, !.start_delay = 0, !.starting_frame = 0,
            !.jump_sequence = << >>, !.play_idle_animation_afterwards = FALSE,
            !.reappear = FALSE]

task_cancel(m, t, msg, fired) ==
  IF t = 0 \/ m.tasks[t].st = "done" THEN m
  ELSE LET T == m.tasks[t]
           T1 == IF T.cancel = "none"
                 THEN [Unwinding(T) EXCEPT !.cancel = msg, !.sticky = OnTimer(T) /\ ~fired]
                 ELSE IF T.sticky THEN T ELSE [T EXCEPT !.cancel = msg]
       IN [m EXCEPT !.tasks[t] = T1]

\* cancel(msg) of the future create_task returned.  For a task made on the
\* worker thread that is the asyncio.Task.  For a coroutine handed over from
\* another thread it is the future of asyncio.wrap_future (wrapper is
\* "pending" until then): that future is cancelled with msg at once, and
\* the callbacks that chain it to the task call the task's cancel() later
\* ("relaying"), without a message
cancel(m, t, msg, fired) ==
  IF t = 0 \/ m.tasks[t].st = "done" THEN m
  ELSE IF m.tasks[t].wrapper = "none" THEN task_cancel(m, t, msg, fired)
  ELSE IF m.tasks[t].wrapper = "pending"
  THEN [m EXCEPT !.tasks[t].wrapper = "relaying", !.tasks[t].wrapper_msg = msg]
  ELSE m

\* the chained callbacks of a cancelled wrapped future reach the task:
\* source.cancel(), called by _call_check_cancel with no argument
relay_cancel(m, t, fired) ==
  [task_cancel(m, t, NoReason, fired) EXCEPT !.tasks[t].wrapper = "cancelled"]

\* AsyncEventLoopHolder.create_task called from a thread other than the
\* event loop's: the future that the new handle holds is the one made by
\* wrap_future(run_coroutine_threadsafe(coro, event_loop))
create_task_from_thread(m) ==
  IF m._anim_task.task = 0 THEN m
  ELSE [m EXCEPT !.tasks[m._anim_task.task].wrapper = "pending"]

\* AnimController.stop_animation
stop_animation(m, msg, fired) == cancel(m, m._anim_task.task, msg, fired)

\* rand.choice(seq)
choice(seq, pick) == seq[((pick - 1) % Len(seq)) + 1]

\* search_animation that takes the name for the animation
search_animation_unchecked(ref, pick) ==
  IF ref.kind = "None" THEN NoAnim
  ELSE IF ref.kind = "AnimInfo" THEN ref.val
  ELSE LET anim_name0 == ref.val
           anim_name ==
             IF anim_name0 # "" /\ startswith(anim_name0, "#")
             THEN LET state_name == DropFirst(anim_name0) IN
                  IF state_name \notin DOMAIN state_infos \/ state_infos[state_name] = << >>
                  THEN ""
                  ELSE choice(state_infos[state_name], pick)
             ELSE anim_name0
       IN IF anim_name # "" /\ anim_name \in DOMAIN Animations THEN anim_name ELSE NoAnim

\* AnimController.search_animation; ref is [kind: "None" | "AnimInfo" | "str", val]
search_animation(ref, pick) ==
  IF ref.kind = "None" THEN NoAnim
  ELSE IF ref.kind = "AnimInfo" THEN ref.val
  ELSE LET anim_name0 == ref.val
           anim_name ==
             IF anim_name0 # "" /\ startswith(anim_name0, "#")
             THEN LET state_name == DropFirst(anim_name0) IN
                  IF state_name \notin DOMAIN state_infos \/ state_infos[state_name] = << >>
                  THEN ""
                  ELSE choice(state_infos[state_name], pick)
             ELSE anim_name0
       IN IF anim_name # "" /\ anim_name \in DOMAIN anim_infos THEN anim_name ELSE NoAnim

\* play_animation that installs the new task without stopping the old one
play_animation_without_stop(m, ref, not_awaitable, start_delay, starting_frame, jump_sequence, reappear, stop, pick, fired) ==
  LET anim == search_animation(ref, pick)
      m2   == [m EXCEPT !.exit_requested = FALSE, !.obs.play_animation = TRUE]
      id   == Len(m.tasks) + 1
  IN IF anim = NoAnim
     THEN [m2 EXCEPT !._anim_task = AnimationTask(0, NoAnim, not_awaitable)]
     ELSE [m2 EXCEPT !.tasks = Append(@, NewTask(anim, TRUE, start_delay, starting_frame,
                                                 jump_sequence, reappear)),
                     !._anim_task = AnimationTask(id, anim, not_awaitable)]

\* AnimController.play_animation
play_animation(m, ref, not_awaitable, start_delay, starting_frame, jump_sequence, reappear, stop, pick, fired) ==
  LET m1   == IF stop THEN stop_animation(m, StopAnimation, fired) ELSE m
      anim == search_animation(ref, pick)
      m2   == [m1 EXCEPT !.exit_requested = FALSE, !.obs.play_animation = TRUE]
      id   == Len(m.tasks) + 1
  IN IF anim = NoAnim
     THEN [m2 EXCEPT !._anim_task = AnimationTask(0, NoAnim, not_awaitable)]
     ELSE [m2 EXCEPT !.tasks = Append(@, NewTask(anim, TRUE, start_delay, starting_frame,
                                                 jump_sequence, reappear)),
                     !._anim_task = AnimationTask(id, anim, not_awaitable)]

\* idle_animations that never looks at the names
idle_animations_any == AnimNames

\* the animations eligible in AnimController._play_idle_animation_later
idle_animations ==
  IF idle_all_anims THEN AnimNames
  ELSE { n \in AnimNames : startswith(lower(anim_infos[n].name), "idle") }

\* AnimController._play_idle_animation_later; r.idle and r.delay are the draws
\* of rand.choice and rand.uniform(1, 4)
_play_idle_animation_later(m, r) ==
  IF idle_animations # {}
  THEN play_animation(m, [kind |-> "AnimInfo", val |-> r.idle], TRUE, r.delay, 0, << >>,
                      TRUE, FALSE, 1, FALSE)
  ELSE m


(***************************************************************************)
(* AnimController.__play, cut at its awaits.  A task is suspended at       *)
(*   "created"  before its first step,                                     *)
(*   "delay"    in the sleep of line 218 (start_delay still holds the      *)
(*              value from before that sleep),                             *)
(*   "frame"    in the sleep of line 230 on frame frame_idx of anim,       *)
(*   "unwinding" in either sleep, with a cancellation pending.             *)
(* anim, frame_idx, reappear, play_idle_animation_afterwards and           *)
(* jump_sequence are the locals of the innermost running __play.  The      *)
(* tail calls of line 242 need no stack: their callers only return the     *)
(* callee's value and run the finally clause.  The caller of line 249      *)
(* continues after the call; its play_idle_animation_afterwards is kept in *)
(* outer while the reappear animation runs.                                *)
(***************************************************************************)

\* Finish without the finally clause
Finish_without_finally(m, t, res) ==
  [m EXCEPT !.tasks[t] = DoneTask(res)]

\* The coroutine ends: the finally clause of every __play still on the stack
\* runs (line 268) and the task gets its outcome.
Finish(m, t, res) ==
  [m EXCEPT !.tasks[t] = DoneTask(res), !.exit_requested = FALSE]

\* An exception that is not a CancelledError leaves every __play on the stack.
Raise(m, t) == Finish(m, t, "error")

\* EnterFrame that looks at the sleep time only
EnterFrame_positive_sleep_only(m, t) ==
  LET T == m.tasks[t] IN
  IF T.frame_idx >= Len(frames(T.anim))
  THEN Raise(m, t)
  ELSE LET frame == frame_at(T.anim, T.frame_idx) IN
       [m EXCEPT !.tasks[t].st = "frame",
                 !.obs.play_frame =
                    IF sleep_centis(frame) > 0
                    THEN << t, T.anim, T.frame_idx >> ELSE NoCall]

\* lines 225-230: the top of the frame loop, up to the sleep
EnterFrame(m, t) ==
  LET T == m.tasks[t] IN
  IF T.frame_idx >= Len(frames(T.anim))
  THEN Raise(m, t)                    \* IndexError at anim.frames[frame_idx]
  ELSE LET frame == frame_at(T.anim, T.frame_idx) IN
       [m EXCEPT !.tasks[t].st = "frame",
                 !.obs.play_frame =
                    IF sleep_centis(frame) > 0 \/ do_not_skip_zero_duration_frames
                    THEN << t, T.anim, T.frame_idx >> ELSE NoCall]

\* lines 211-223: a call of __play up to its first await (jump_sequence is
\* passed on as it is)
BeginPlay(m, t, anim, play_idle, start_delay, starting_frame, reappear) ==
  LET m1 == [m EXCEPT !.tasks[t].anim = anim,
                      !.tasks[t].play_idle_animation_afterwards = play_idle,
                      !.tasks[t].start_delay = start_delay,
                      !.tasks[t].starting_frame = starting_frame,
                      !.tasks[t].frame_idx = starting_frame,
                      !.tasks[t].reappear = reappear]
  IN IF start_delay > 0
     THEN [m1 EXCEPT !.tasks[t].st = "delay"]
     ELSE EnterFrame(m1, t)

\* The innermost __play returns value (after its finally clause).  Callers by
\* line 242 return it too; the caller by line 249 ignores it and goes on with
\* lines 251-253.
RECURSIVE Return(_, _, _, _)
Return(m, t, value, r) ==
  LET T  == m.tasks[t]
      m1 == [m EXCEPT !.exit_requested = FALSE]
  IN IF T.outer = << >>
     THEN Finish(m1, t, value)
     ELSE LET m2 == [m1 EXCEPT !.tasks[t].outer = Tail(T.outer)]
              m3 == IF Head(T.outer) /\ ~no_idle
                    THEN _play_idle_animation_later(m2, r) ELSE m2
          IN Return(m3, t, "true", r)

\* lines 251-253
Epilogue(m, t, r) ==
  LET T  == m.tasks[t]
      m1 == IF T.play_idle_animation_afterwards /\ ~no_idle
            THEN _play_idle_animation_later(m, r) ELSE m
  IN Return(m1, t, "true", r)

\* Complete whose reappearance may itself be followed by a reappearance
Complete_reappear_kept(m, t, r) ==
  LET T == m.tasks[t] IN
  IF /\ T.reappear
     /\ Animations[T.anim].name \in {"HIDE", "GOODBYE"}
     /\ "SHOWING" \in DOMAIN state_infos
  THEN LET show_anim == search_animation([kind |-> "str", val |-> "#SHOWING"], r.show) IN
       IF show_anim # NoAnim
       THEN BeginPlay([m EXCEPT !.tasks[t].outer =
                                   << T.play_idle_animation_afterwards >> \o @],
                      t, show_anim, FALSE, REAPPEAR_DELAY, 0, T.reappear)
       ELSE Epilogue(m, t, r)
  ELSE Epilogue(m, t, r)

\* lines 246-253: after the frame loop was left by break
Complete(m, t, r) ==
  LET T == m.tasks[t] IN
  IF /\ T.reappear
     /\ Animations[T.anim].name \in {"HIDE", "GOODBYE"}
     /\ "SHOWING" \in DOMAIN state_infos
  THEN LET show_anim == search_animation([kind |-> "str", val |-> "#SHOWING"], r.show) IN
       IF show_anim # NoAnim
       THEN BeginPlay([m EXCEPT !.tasks[t].outer =
                                   << T.play_idle_animation_afterwards >> \o @],
                      t, show_anim, FALSE, REAPPEAR_DELAY, 0, FALSE)
       ELSE Epilogue(m, t, r)
  ELSE Epilogue(m, t, r)

\* NextIndex that takes the exit branch only when no branch is picked
NextIndex_branches_first(m, t, r) ==
  LET T         == m.tasks[t]
      frame     == frame_at(T.anim, T.frame_idx)
      supplied  == T.jump_sequence # << >>
      value     == IF supplied THEN Head(T.jump_sequence) ELSE r.v
      jump_dest == pick_jump_destination(frame, value)
  IN IF jump_dest = None /\ m.exit_requested /\ frame.exit_index >= 0
     THEN [idx |-> frame.exit_index, jump_sequence |-> T.jump_sequence, by |-> "exit"]
     ELSE [idx |-> IF jump_dest = None THEN T.frame_idx + 1 ELSE jump_dest,
           jump_sequence |-> IF supplied THEN Tail(T.jump_sequence) ELSE << >>,
           by |-> IF supplied THEN "sequence" ELSE "rand"]

\* NextIndex whose exit override draws from the sequence as well
NextIndex_exit_consumes(m, t, r) ==
  LET T     == m.tasks[t]
      frame == frame_at(T.anim, T.frame_idx)
      supplied  == T.jump_sequence # << >>
      value     == IF supplied THEN Head(T.jump_sequence) ELSE r.v
      jump_dest == pick_jump_destination(frame, value)
      rest      == IF supplied THEN Tail(T.jump_sequence) ELSE << >>
  IN IF m.exit_requested /\ frame.exit_index >= 0
     THEN [idx |-> frame.exit_index, jump_sequence |-> rest, by |-> "exit"]
     ELSE [idx |-> IF jump_dest = None THEN T.frame_idx + 1 ELSE jump_dest,
           jump_sequence |-> rest,
           by |-> IF supplied THEN "sequence" ELSE "rand"]

\* NextIndex that stays on the frame when no branch is taken
NextIndex_stays(m, t, r) ==
  LET T     == m.tasks[t]
      frame == frame_at(T.anim, T.frame_idx)
  IN IF m.exit_requested /\ frame.exit_index >= 0
     THEN [idx |-> frame.exit_index, jump_sequence |-> T.jump_sequence, by |-> "exit"]
     ELSE LET supplied  == T.jump_sequence # << >>
              value     == IF supplied THEN Head(T.jump_sequence) ELSE r.v
              jump_dest == pick_jump_destination(frame, value)
          IN [idx |-> IF jump_dest = None THEN T.frame_idx ELSE jump_dest,
              jump_sequence |-> IF supplied THEN Tail(T.jump_sequence) ELSE << >>,
              by |-> IF supplied THEN "sequence" ELSE "rand"]

\* lines 232-237: the index of the next frame; r.v is the draw of
\* rand.randrange(0, 100) used once the supplied sequence is exhausted
NextIndex(m, t, r) ==
  LET T     == m.tasks[t]
      frame == frame_at(T.anim, T.frame_idx)
  IN IF m.exit_requested /\ frame.exit_index >= 0
     THEN [idx |-> frame.exit_index, jump_sequence |-> T.jump_sequence, by |-> "exit"]
     ELSE LET supplied  == T.jump_sequence # << >>
              value     == IF supplied THEN Head(T.jump_sequence) ELSE r.v
              jump_dest == pick_jump_destination(frame, value)
          IN [idx |-> IF jump_dest = None THEN T.frame_idx + 1 ELSE jump_dest,
              jump_sequence |-> IF supplied THEN Tail(T.jump_sequence) ELSE << >>,
              by |-> IF supplied THEN "sequence" ELSE "rand"]

\* WakeFrame that starts the return animation with a fresh jump sequence
WakeFrame_fresh_sequence(m, t, r) ==
  LET T   == m.tasks[t]
      nx  == NextIndex(m, t, r)
      m1  == [m EXCEPT !.tasks[t].frame_idx = nx.idx,
                       !.tasks[t].jump_sequence = nx.jump_sequence,
                       !.obs.next_idx = nx.idx,
                       !.obs.by = nx.by]
      anim == Animations[T.anim]
  IN IF nx.idx >= Len(anim.frames)
     THEN IF anim.transition_type = USE_RETURN_ANIMATION
          THEN IF anim.return_anim_name \in DOMAIN anim_infos
               THEN BeginPlay([m1 EXCEPT !.tasks[t].jump_sequence = << >>], t,
                              anim.return_anim_name,
                              T.play_idle_animation_afterwards, 0, 0, T.reappear)
               ELSE Raise(m1, t)
          ELSE Complete(m1, t, r)
     ELSE EnterFrame(m1, t)

\* WakeFrame that treats a missing return animation as no return animation
WakeFrame_missing_completes(m, t, r) ==
  LET T   == m.tasks[t]
      nx  == NextIndex(m, t, r)
      m1  == [m EXCEPT !.tasks[t].frame_idx = nx.idx,
                       !.tasks[t].jump_sequence = nx.jump_sequence,
                       !.obs.next_idx = nx.idx,
                       !.obs.by = nx.by]
      anim == Animations[T.anim]
  IN IF nx.idx >= Len(anim.frames)
     THEN IF /\ anim.transition_type = USE_RETURN_ANIMATION
             /\ anim.return_anim_name \in DOMAIN anim_infos
          THEN BeginPlay(m1, t, anim.return_anim_name,
                         T.play_idle_animation_afterwards, 0, 0, T.reappear)
          ELSE Complete(m1, t, r)
     ELSE EnterFrame(m1, t)

\* WakeFrame that takes an index equal to the number of frames for a frame
WakeFrame_beyond_only(m, t, r) ==
  LET T   == m.tasks[t]
      nx  == NextIndex(m, t, r)
      m1  == [m EXCEPT !.tasks[t].frame_idx = nx.idx,
                       !.tasks[t].jump_sequence = nx.jump_sequence,
                       !.obs.next_idx = nx.idx,
                       !.obs.by = nx.by]
      anim == Animations[T.anim]
  IN IF nx.idx > Len(anim.frames)
     THEN IF anim.transition_type = USE_RETURN_ANIMATION
          THEN IF anim.return_anim_name \in DOMAIN anim_infos
               THEN BeginPlay(m1, t, anim.return_anim_name,
                              T.play_idle_animation_afterwards, 0, 0, T.reappear)
               ELSE Raise(m1, t)
          ELSE Complete(m1, t, r)
     ELSE EnterFrame(m1, t)

\* lines 230-244: resumed from the sleep on a frame
WakeFrame(m, t, r) ==
  LET T   == m.tasks[t]
      nx  == NextIndex(m, t, r)
      m1  == [m EXCEPT !.tasks[t].frame_idx = nx.idx,
                       !.tasks[t].jump_sequence = nx.jump_sequence,
                       !.obs.next_idx = nx.idx,
                       !.obs.by = nx.by]
      anim == Animations[T.anim]
  IN IF nx.idx >= Len(anim.frames)
     THEN IF anim.transition_type = USE_RETURN_ANIMATION
          THEN IF anim.return_anim_name \in DOMAIN anim_infos
               THEN BeginPlay(m1, t, anim.return_anim_name,
                              T.play_idle_animation_afterwards, 0, 0, T.reappear)
               ELSE Raise(m1, t)           \* KeyError
          ELSE Complete(m1, t, r)
     ELSE EnterFrame(m1, t)

\* WakeDelay that sleeps the start delay in one piece
WakeDelay_whole(m, t) ==
  LET T        == m.tasks[t]
      duration == T.start_delay
  IN EnterFrame([m EXCEPT !.tasks[t].start_delay = 0,
                          !.tasks[t].frame_idx = T.starting_frame,
                          !.obs.slept = duration], t)

\* lines 216-223: resumed from one sub-interval of the start delay
WakeDelay(m, t) ==
  LET T        == m.tasks[t]
      duration == Min(SLICE, T.start_delay)
      left     == T.start_delay - duration
  IN IF left > 0
     THEN [m EXCEPT !.tasks[t].start_delay = left, !.obs.slept = duration]
     ELSE EnterFrame([m EXCEPT !.tasks[t].start_delay = left,
                               !.tasks[t].frame_idx = T.starting_frame,
                               !.obs.slept = duration], t)

\* Cancelled that recognises StopAnimation only
Cancelled_stop_animation_only(m, t, reason, r) ==
  LET m1 == [m EXCEPT !.obs.handler = reason] IN
  IF reason = StopAnimation THEN Return(m1, t, "false", r)
  ELSE Finish(m1, t, "cancelled")

\* Cancelled that swallows every reason
Cancelled_any_reason(m, t, reason, r) ==
  Return([m EXCEPT !.obs.handler = reason], t, "false", r)

\* lines 255-265: CancelledError(reason) raised at the await of the innermost
\* __play; a re-raised one is caught and re-raised by every caller's handler
Cancelled(m, t, reason, r) ==
  LET m1 == [m EXCEPT !.obs.handler = reason] IN
  IF reason = StopAnimation THEN Return(m1, t, "false", r)
  ELSE IF reason = Stop THEN Return(m1, t, "false", r)
  ELSE Finish(m1, t, "cancelled")

\* One step of task t on the event loop.
Resume(m0, t, r) ==
  LET m == [m0 EXCEPT !.obs.task = t]
      T == m.tasks[t]
  IN IF T.cancel # "none"
     THEN IF T.st = "created"
          THEN \* thrown into a coroutine that has not started: no line of
               \* __play runs, not even its finally clause
               [m EXCEPT !.tasks[t] = DoneTask("cancelled")]
          ELSE Cancelled(m, t, T.cancel, r)
     ELSE IF T.st = "created"
          THEN BeginPlay(m, t, T.anim, T.play_idle_animation_afterwards, T.start_delay,
                         T.starting_frame, T.reappear)
          ELSE IF T.st = "delay" THEN WakeDelay(m, t)
          ELSE WakeFrame(m, t, r)


(***************************************************************************)
(* Dialogues.  A message is [kind: "None" | "str" | "Message", msg,        *)
(* buttons]; a button's value is [callable, key].  A dialogue future is    *)
(* pending, done (with a result) or cancelled.                             *)
(***************************************************************************)
NoValue == [callable |-> FALSE, key |-> "<None>"]

NoneMsg             == [kind |-> "None", msg |-> "", buttons |-> << >>]
StrMsg(text)        == [kind |-> "str", msg |-> text, buttons |-> << >>]
Message(text, btns) == [kind |-> "Message", msg |-> text, buttons |-> btns]

\* Python truth value of msg: None and "" are false, a Message is always true
Truthy(msg) == msg.kind = "Message" \/ (msg.kind = "str" /\ msg.msg # "")

\* AnimController.say: the future it makes and what it hands to the backend
say_future(msg) ==
  LET with_buttons == Truthy(msg) /\ msg.kind = "Message" /\ msg.buttons # << >> IN
  [st       |-> IF with_buttons THEN "pending" ELSE "done",
   result   |-> NoValue,
   shown    |-> Truthy(msg),                      \* agent.say(msg, _button_callback)
   buttons  |-> IF Truthy(msg) THEN msg.buttons ELSE << >>,
   called   |-> "no"]

\* button_callback that resolves the future before it invokes value()
button_callback_resolve_first(f, value, raises) ==
  LET f1 == IF f.st = "pending" THEN [f EXCEPT !.st = "done", !.result = value] ELSE f
  IN IF value.callable THEN [f1 EXCEPT !.called = f1.st] ELSE f1

\* _button_callback(button_text, value) of the dialogue future f.  called
\* records the state the future was in when value() was invoked; raises tells
\* whether value() raised, which skips set_result.
button_callback(f, value, raises) ==
  LET f1 == IF value.callable THEN [f EXCEPT !.called = f.st] ELSE f
  IN IF value.callable /\ raises THEN f1
     ELSE IF f1.st = "pending"
     THEN [f1 EXCEPT !.st = "done", !.result = value]
     ELSE f1                                      \* set_result raises InvalidStateError

\* asyncio.Future.cancel(msg)
future_cancel(f) == IF f.st = "pending" THEN [f EXCEPT !.st = "cancelled"] ELSE f

(***************************************************************************)
(* Inputs.                                                                 *)
(***************************************************************************)
Ref(kind, val) == [kind |-> kind, val |-> val]

Request(ref, not_awaitable, start_delay, starting_frame, jump_sequence, reappear) ==
  [ref |-> ref, not_awaitable |-> not_awaitable, start_delay |-> start_delay,
   starting_frame |-> starting_frame, jump_sequence |-> jump_sequence,
   reappear |-> reappear]

\* the calls of play_animation a caller makes
Requests ==
  { Request(Ref("str", "GREET"),      FALSE, 0,  0, << >>,       FALSE),
    Request(Ref("AnimInfo", "GREET"), FALSE, 70, 0, << 35, 75 >>, FALSE),
    Request(Ref("str", "GREET"),      TRUE,  0,  2, << >>,       TRUE),
    Request(Ref("str", "LOOK"),       FALSE, 0,  0, << 75, 35 >>, FALSE),
    Request(Ref("str", "LOST"),       FALSE, 0,  0, << >>,       FALSE),
    Request(Ref("str", "HIDE"),       FALSE, 0,  0, << >>,       TRUE),
    Request(Ref("str", "#SHOWING"),   FALSE, 0,  0, << >>,       FALSE),
    Request(Ref("str", "#GONE"),      FALSE, 0,  0, << >>,       FALSE),
    Request(Ref("str", "NOWHERE"),    FALSE, 0,  0, << >>,       FALSE),
    Request(Ref("None", ""),          FALSE, 0,  0, << >>,       FALSE) }

\* the branch lists pick_jump_destination is called on
Branches    == { BranchInfo(target, prob) : target \in {3, 7}, prob \in {0, 30, 40, 60, 100} }
BranchLists == UNION { [1 .. n -> Branches] : n \in 0 .. MaxBranches }

\* the draws of rand.uniform(1, 4), in ms
IdleDelays == {IDLE_DELAY_MIN}

With    == ( "SHOWING" :> << "SHOW" >> ) @@ ( "GONE" :> << "NOWHERE" >> )
Without == ( "GONE" :> << "NOWHERE" >> )

\* the animation tables the controllers are given
Loaded == {"GREET", "LOOK", "LOST", "HIDE", "SHOW", "Idle1"}

\* the controllers constructed: << speed, no_idle, idle_all_anims,
\* do_not_skip_zero_duration_frames, state_infos, keys of anim_infos >>
Configs ==
  { << 1, FALSE, FALSE, FALSE, With,    Loaded >>,
    << 0, FALSE, TRUE,  TRUE,  Without, Loaded >>,
    << 1, TRUE,  FALSE, FALSE, With,    Loaded >> }

\* the calls of play_animation that start the one playback that is observed
Playbacks ==
  Requests \cup
  { Request(Ref("str", "WAVE"),      FALSE, 0,   0, << >>,   FALSE),
    Request(Ref("AnimInfo", "WAVE"), TRUE,  120, 1, << 10 >>, TRUE),
    Request(Ref("str", "WAVE"),      FALSE, 0,   3, << >>,   FALSE),
    Request(Ref("str", "LOOK"),      FALSE, 0,   0, << 75 >>, FALSE),
    Request(Ref("str", "HIDE"),      FALSE, 0,   0, << >>,   FALSE),
    Request(Ref("str", "GOODBYE"),   FALSE, 0,   0, << >>,   TRUE),
    Request(Ref("str", "#MOVING"),   FALSE, 0,   0, << >>,   FALSE),
    Request(Ref("str", "#EMPTY"),    FALSE, 0,   0, << >>,   FALSE),
    Request(Ref("str", "#NOSTATE"),  FALSE, 0,   0, << >>,   FALSE) }

\* the draws of rand.uniform(1, 4) in a playback, in ms
PlaybackIdleDelays == {IDLE_DELAY_MIN, IDLE_DELAY_MAX - SLICE}

Several == ( "SHOWING" :> << "SHOW", "WAVE" >> ) @@ ( "MOVING" :> << "LOOK", "WAVE" >> ) @@
           ( "EMPTY" :> << >> ) @@ ( "GONE" :> << "NOWHERE" >> )
Hollow  == ( "SHOWING" :> << >> )

\* the controllers constructed for the observed playback
PlaybackConfigs ==
  { << 1, FALSE, FALSE, FALSE, Several, DOMAIN Animations >>,
    << 1, FALSE, FALSE, TRUE,  With,    DOMAIN Animations >>,
    << 0, FALSE, FALSE, FALSE, Several, DOMAIN Animations >>,
    << 0, FALSE, TRUE,  TRUE,  Without, Loaded >>,
    << 1, TRUE,  FALSE, FALSE, Several, DOMAIN Animations >>,
    << 1, FALSE, FALSE, FALSE, With,    DOMAIN Animations \ {"Idle1"} >>,
    << 1, TRUE,  FALSE, FALSE, Several, DOMAIN Animations \ {"SHOW"} >>,
    << 1, TRUE,  FALSE, FALSE, Hollow,  Loaded >> }

Messages       == { NoneMsg, StrMsg(""), StrMsg("hi"), Message("hi", << >>),
                    Message("", << [callable |-> FALSE, key |-> "OK"],
                                   [callable |-> TRUE, key |-> "bye"] >>) }

Machine ==
  [tasks |-> tasks, _anim_task |-> _anim_task, exit_requested |-> exit_requested,
   obs |-> NoObs]

\* the step ends in the state m; it is not taken when it would need more
\* tasks than the model has
Install(m) ==
  /\ Len(m.tasks) <= MaxTasks
  /\ tasks' = m.tasks
  /\ _anim_task' = m._anim_task
  /\ exit_requested' = m.exit_requested
  /\ obs' = m.obs

(***************************************************************************)
(* Initial state: AnimController.__init__                                  *)
(***************************************************************************)
NoJump == [branch_infos |-> << >>, rand_value |-> 0, result |-> None, done |-> FALSE]

NoCodec == [x |-> << >>, buffer_size |-> 0, data |-> << >>,
            out |-> [ok |-> TRUE, bytes |-> << >>], st |-> "none"]

NoSearch == [ref |-> [kind |-> "None", val |-> ""], not_awaitable |-> FALSE,
             pick |-> 1, found |-> NoAnim, st |-> "none"]

NoImage == [st |-> "none"]

NoReading == [st |-> "none"]

NoBuf == [st |-> "none"]

\* no file is being read
NoFiles == image = NoImage /\ reading = NoReading /\ buf = NoBuf

NoAwaiter == [st |-> "idle", handle |-> AnimationTask(0, NoAnim, FALSE), result |-> "none"]

\* a controller constructed with one of the parameter tuples of cs
InitWith(cs) ==
  /\ \E c \in cs :
       /\ speed = c[1]
       /\ no_idle = c[2]
       /\ idle_all_anims = c[3]
       /\ do_not_skip_zero_duration_frames = c[4]
       /\ state_infos = c[5]
       /\ loaded = c[6]
  /\ exit_requested = FALSE
  /\ tasks = << >>
  /\ _anim_task = AnimationTask(0, NoAnim, FALSE)
  /\ says = << >>
  /\ _say_task = 0
  /\ obs = NoObs
  /\ played = {}
  /\ awaiter = NoAwaiter

InitController == InitWith(Configs)

Init ==
  /\ InitController
  /\ jump = NoJump
  /\ search = NoSearch
  /\ codec = NoCodec
  /\ NoFiles

(***************************************************************************)
(* Actions.                                                                *)
(***************************************************************************)
\* Was the timer of the sleep the current task waits in already due?
Fireds ==
  LET t == _anim_task.task IN
  IF t # 0 /\ tasks[t].st # "done" /\ tasks[t].cancel = "none" /\ OnTimer(tasks[t])
  THEN BOOLEAN ELSE {FALSE}

\* a caller's play_animation(anim, ...)
PlayAnimation ==
  \E q \in Requests, fired \in Fireds :
    /\ Install(play_animation(Machine, q.ref, q.not_awaitable,
                              q.start_delay, q.starting_frame, q.jump_sequence,
                              q.reappear, TRUE, 1, fired))
    /\ UNCHANGED << config, says, _say_task, pure, observers >>

\* a caller's stop_animation(msg)
StopAnimationCall ==
  \E msg \in Reasons, fired \in Fireds :
    /\ Install(stop_animation(Machine, msg, fired))
    /\ UNCHANGED << config, says, _say_task, pure, observers >>

\* a caller's request_exit()
RequestExit ==
  /\ Install([Machine EXCEPT !.exit_requested = TRUE])
  /\ UNCHANGED << config, says, _say_task, pure, observers >>

\* rand.randrange(0, 100) draws any of 0 .. 99; draws that pick the same
\* destination give the same step, so one draw of each run of equal outcomes
\* is enumerated
Representatives(frame) ==
  { v \in 0 .. RAND_RANGE - 1 :
      v = 0 \/ pick_jump_destination(frame, v) # pick_jump_destination(frame, v - 1) }

\* the draws a step of task t can consume: v of rand.randrange, show of the
\* rand.choice in search_animation, idle and delay of _play_idle_animation_later
Draws(t) ==
  LET T == tasks[t]
      waking == T.st = "frame" /\ T.cancel = "none"
      vs == IF waking /\ T.jump_sequence = << >>
               /\ ~(exit_requested /\ frame_at(T.anim, T.frame_idx).exit_index >= 0)
            THEN Representatives(frame_at(T.anim, T.frame_idx)) ELSE {0}
      idles == IF ~no_idle /\ T.st # "created" /\ idle_animations # {}
               THEN idle_animations ELSE {NoAnim}
      delays == IF idles # {NoAnim} THEN IdleDelays ELSE {0}
  IN { [v |-> v, show |-> 1, idle |-> i, delay |-> d] : v \in vs, i \in idles, d \in delays }

\* the event loop runs the next step of an animation task
Step ==
  \E t \in 1 .. Len(tasks) :
    /\ tasks[t].st # "done"
    /\ \E r \in Draws(t) : Install(Resume(Machine, t, r))
    /\ UNCHANGED << config, says, _say_task, pure, observers >>

\* a caller's await interrupt()
Interrupt ==
  \E fired \in Fireds :
    /\ Install(stop_animation(Machine, Stop, fired))
    /\ says' = IF _say_task = 0 THEN says
               ELSE [says EXCEPT ![_say_task] = future_cancel(says[_say_task])]
    /\ UNCHANGED << config, _say_task, pure, observers >>

\* a caller's say(msg)
Say ==
  \E msg \in Messages :
    /\ Len(says) < MaxSays
    /\ says' = Append(says, say_future(msg))
    /\ _say_task' = Len(says) + 1
    /\ obs' = NoObs
    /\ UNCHANGED << config, exit_requested, tasks, _anim_task, pure, observers >>

\* the backend reports that button b of dialogue i was pressed
ButtonPressed ==
  \E i \in 1 .. Len(says) : \E b \in 1 .. Len(says[i].buttons) :
    \E raises \in IF says[i].buttons[b].callable THEN BOOLEAN ELSE {FALSE} :
      /\ says' = [says EXCEPT ![i] = button_callback(says[i], says[i].buttons[b], raises)]
      /\ obs' = [NoObs EXCEPT !.button = << i, b, raises >>]
      /\ UNCHANGED << config, exit_requested, tasks, _anim_task, _say_task, pure, observers >>

\* the caller's first play_animation(anim, ...): it starts the playback
Play ==
  /\ tasks = << >>
  /\ \E q \in Playbacks, pick \in 1 .. 2 :
       Install(play_animation(Machine, q.ref, q.not_awaitable, q.start_delay,
                              q.starting_frame, q.jump_sequence, q.reappear, TRUE,
                              pick, FALSE))
  /\ UNCHANGED << config, says, _say_task, pure, observers >>

\* the draws a step of task t of a playback can consume
PlaybackDraws(t) ==
  LET T == tasks[t]
      waking == T.st = "frame" /\ T.cancel = "none"
      vs == IF waking /\ T.jump_sequence = << >>
               /\ ~(exit_requested /\ frame_at(T.anim, T.frame_idx).exit_index >= 0)
            THEN Representatives(frame_at(T.anim, T.frame_idx)) ELSE {0}
      shows == IF waking /\ T.reappear THEN 1 .. 2 ELSE {1}
      idles == IF ~no_idle /\ T.st # "created" /\ idle_animations # {}
               THEN idle_animations ELSE {NoAnim}
      delays == IF idles # {NoAnim} THEN PlaybackIdleDelays ELSE {0}
  IN { [v |-> v, show |-> c, idle |-> i, delay |-> d] :
         v \in vs, c \in shows, i \in idles, d \in delays }

\* the first play_animation(anim, ...), called from a thread other than the
\* event loop's
PlayFromThread ==
  /\ tasks = << >>
  /\ \E q \in Playbacks, pick \in 1 .. 2 :
       Install(create_task_from_thread(
                 play_animation(Machine, q.ref, q.not_awaitable, q.start_delay,
                                q.starting_frame, q.jump_sequence, q.reappear, TRUE,
                                pick, FALSE)))
  /\ UNCHANGED << config, says, _say_task, pure, observers >>

\* was the timer of the sleep task t waits in already due?
FiredsOf(t) ==
  IF tasks[t].cancel = "none" /\ OnTimer(tasks[t]) THEN BOOLEAN ELSE {FALSE}

\* the event loop runs the callbacks that chain a cancelled wrapped future
\* to its task
RelayCancel ==
  \E t \in 1 .. Len(tasks) :
    /\ tasks[t].st # "done"
    /\ tasks[t].wrapper = "relaying"
    /\ \E fired \in FiredsOf(t) :
         Install([relay_cancel(Machine, t, fired) EXCEPT !.obs = NoObs])
    /\ UNCHANGED << config, says, _say_task, pure, observers >>

\* the event loop runs the next step of the task t of the playback
AdvanceTask(t) ==
  /\ t \in 1 .. Len(tasks)
  /\ tasks[t].st # "done"
  /\ \E r \in PlaybackDraws(t) : Install(Resume(Machine, t, r))
  /\ played' = IF obs'.play_frame # NoCall THEN played \cup {t} ELSE played
  /\ UNCHANGED << config, says, _say_task, pure, awaiter >>

Advance == \E t \in 1 .. Len(tasks) : AdvanceTask(t)

\* the step ends in the state m, which holds the tasks of the playback, of
\* the call after it, and one more that their unwinding schedules
InstallAll(m) ==
  /\ Len(m.tasks) <= MaxTasks + 1
  /\ tasks' = m.tasks
  /\ _anim_task' = m._anim_task
  /\ exit_requested' = m.exit_requested
  /\ obs' = m.obs

\* the calls of play_animation a caller makes while a playback is under way
Supersedings ==
  { Request(Ref("str", "WAVE"), FALSE, 0, 0, << >>, FALSE),
    Request(Ref("str", "GREET"), FALSE, 70, 0, << 35 >>, FALSE),
    Request(Ref("None", ""), FALSE, 0, 0, << >>, FALSE) }

\* the caller's next play_animation(anim, ...), after the one that started
\* the playback
PlayOver ==
  /\ Len(tasks) = 1
  /\ \E q \in Supersedings, fired \in Fireds :
       InstallAll(play_animation(Machine, q.ref, q.not_awaitable, q.start_delay,
                                 q.starting_frame, q.jump_sequence, q.reappear, TRUE,
                                 1, fired))
  /\ UNCHANGED << config, says, _say_task, pure, observers >>

\* the event loop runs the next step of one of the tasks
AdvanceOver ==
  \E t \in 1 .. Len(tasks) :
    /\ tasks[t].st # "done"
    /\ \E r \in PlaybackDraws(t) : InstallAll(Resume(Machine, t, r))
    /\ played' = IF obs'.play_frame # NoCall THEN played \cup {t} ELSE played
    /\ UNCHANGED << config, says, _say_task, pure, awaiter >>

\* __await__ that awaits the task whatever no_wait is
await_task(h) ==
  IF h.task = 0 THEN [st |-> "returned", handle |-> h, result |-> "false"]
  ELSE IF tasks[h.task].st = "done"
       THEN [st |-> "returned", handle |-> h, result |-> tasks[h.task].result]
       ELSE [st |-> "waiting", handle |-> h, result |-> "none"]

\* AnimationTask.__await__ of the handle h, up to its first suspension
await(h) ==
  IF h.no_wait THEN [st |-> "returned", handle |-> h, result |-> "false"]
  ELSE IF h.task = 0 THEN [st |-> "returned", handle |-> h, result |-> "false"]
  ELSE IF tasks[h.task].st = "done"
       THEN [st |-> "returned", handle |-> h, result |-> tasks[h.task].result]
       ELSE [st |-> "waiting", handle |-> h, result |-> "none"]

\* a coroutine awaits the handle play_animation returned last
AwaitHandle ==
  /\ awaiter.st = "idle"
  /\ awaiter' = await(_anim_task)
  /\ obs' = NoObs
  /\ UNCHANGED << config, exit_requested, tasks, _anim_task, says, _say_task, pure, played >>

\* the awaited task is done: the awaiting coroutine is resumed with its outcome
AwaitReturns ==
  /\ awaiter.st = "waiting"
  /\ tasks[awaiter.handle.task].st = "done"
  /\ awaiter' = [awaiter EXCEPT !.st = "returned",
                                 !.result = tasks[awaiter.handle.task].result]
  /\ obs' = NoObs
  /\ UNCHANGED << config, exit_requested, tasks, _anim_task, says, _say_task, pure, played >>

\* a call frame.pick_jump_destination(rand_value)
PickJumpDestination ==
  /\ ~jump.done
  /\ jump' = [jump EXCEPT
                !.result = pick_jump_destination(FrameInfo(0, -1, jump.branch_infos),
                                                 jump.rand_value),
                !.done = TRUE]
  /\ UNCHANGED << config, exit_requested, tasks, _anim_task, says, _say_task, obs, observers,
                  search, codec, files >>

\* The animation scheduler.  Dialogues share no state with animations (only
\* interrupt() touches both), so they get a specification of their own.
Next ==
  \/ PlayAnimation
  \/ Interrupt
  \/ StopAnimationCall
  \/ RequestExit
  \/ Step

Spec == Init /\ [][Next]_vars

\* The dialogues.
NextSay ==
  \/ Say
  \/ ButtonPressed
  \/ Interrupt

SpecSay == Init /\ [][NextSay]_vars

\* FrameInfo.pick_jump_destination on its own: every branch list of up to
\* MaxBranches branches and every draw of rand.randrange(0, 100).
InitJump ==
  /\ InitController
  /\ speed = 1 /\ ~no_idle
  /\ jump \in [branch_infos : BranchLists, rand_value : 0 .. RAND_RANGE - 1,
               result : {None}, done : {FALSE}]
  /\ search = NoSearch
  /\ codec = NoCodec
  /\ NoFiles

NextJump == PickJumpDestination

SpecJump == InitJump /\ [][NextJump]_vars

\* One playback and what follows from it (its return and reappear animations,
\* the idle animations it schedules), with a caller that may request the exit,
\* cancel, and await the handle.
InitPlayback ==
  /\ InitWith(PlaybackConfigs)
  /\ jump = NoJump
  /\ search = NoSearch
  /\ codec = NoCodec
  /\ NoFiles

NextPlayback ==
  \/ Play
  \/ Advance
  \/ RequestExit
  \/ StopAnimationCall
  \/ AwaitHandle
  \/ AwaitReturns

SpecPlayback == InitPlayback /\ [][NextPlayback]_vars

NextThreads ==
  \/ Play
  \/ PlayFromThread
  \/ Advance
  \/ StopAnimationCall
  \/ RelayCancel

\* One playback started from the worker thread or from another thread, and
\* a caller that stops it.
SpecThreads == InitPlayback /\ [][NextThreads]_vars

NextSuperseding ==
  \/ Play
  \/ PlayOver
  \/ AdvanceOver
  \/ RequestExit

\* A playback that the caller supersedes with a second play_animation, and
\* the tasks their unwinding schedules.
SpecSuperseding == InitPlayback /\ [][NextSuperseding]_vars

\* the references search_animation is called with
SearchRefs ==
  { Ref("None", ""), Ref("AnimInfo", "GREET"), Ref("AnimInfo", "WAVE"),
    Ref("str", "GREET"), Ref("str", "WAVE"), Ref("str", "Idle1"), Ref("str", "idle1"),
    Ref("str", "NOWHERE"), Ref("str", ""), Ref("str", "#"),
    Ref("str", "#SHOWING"), Ref("str", "#MOVING"), Ref("str", "#GONE"),
    Ref("str", "#EMPTY"), Ref("str", "#NOSTATE"), Ref("str", "SHOWING") }

InitSearch ==
  /\ InitWith(PlaybackConfigs)
  /\ jump = NoJump
  /\ search \in [ref : SearchRefs, not_awaitable : BOOLEAN, pick : 1 .. 2,
                  found : {NoAnim}, st : {"input"}]
  /\ codec = NoCodec
  /\ NoFiles

\* search_animation(ref), with the draw pick of rand.choice
SearchAnimation ==
  /\ search.st = "input"
  /\ search' = [search EXCEPT !.found = search_animation(search.ref, search.pick),
                              !.st = "searched"]
  /\ UNCHANGED << config, exit_requested, tasks, _anim_task, says, _say_task, obs, jump,
                  observers, codec, files >>

\* play_animation(ref, not_awaitable=...), with the same draw
PlaySearched ==
  /\ search.st = "searched"
  /\ Install(play_animation(Machine, search.ref, search.not_awaitable, 0, 0, << >>,
                            FALSE, TRUE, search.pick, FALSE))
  /\ search' = [search EXCEPT !.st = "played"]
  /\ UNCHANGED << config, says, _say_task, jump, observers, codec, files >>

NextSearch ==
  \/ SearchAnimation
  \/ PlaySearched
  \/ AwaitHandle

\* AnimController.search_animation on its own, and play_animation on what
\* it was given
SpecSearch == InitSearch /\ [][NextSearch]_vars

\* the byte values of the sequences given to the compressor
Bytes == {0, 1, 170}
\* the header bytes the compressor writes
Headers == {0, 255}

ByteSeqs == UNION { [1 .. n -> Bytes] : n \in 0 .. MaxLen }

InitCodec ==
  /\ InitController
  /\ speed = 1 /\ ~no_idle
  /\ jump = NoJump
  /\ search = NoSearch
  /\ NoFiles
  /\ \E x \in ByteSeqs, n \in {MaxLen, MaxLen + 1} :
       codec = [x |-> x, buffer_size |-> IF n = MaxLen THEN Len(x) ELSE n,
                data |-> << >>, out |-> [ok |-> TRUE, bytes |-> << >>], st |-> "input"]

\* the reference compressor writes x as one of its tokenisations
Compress ==
  /\ codec.st = "input"
  /\ \E toks \in Tokenisations(codec.x, 0), header \in Headers :
       codec' = [codec EXCEPT !.data = compress(header, toks), !.st = "compressed"]
  /\ UNCHANGED << config, exit_requested, tasks, _anim_task, says, _say_task, obs, jump,
                  observers, search, files >>

\* decompress(data, buffer_size)
Decompress ==
  /\ codec.st = "compressed"
  /\ codec' = [codec EXCEPT !.out = decompress(codec.data, codec.buffer_size),
                            !.st = "decompressed"]
  /\ UNCHANGED << config, exit_requested, tasks, _anim_task, says, _say_task, obs, jump,
                  observers, search, files >>

NextCodec ==
  \/ Compress
  \/ Decompress

\* decompress on what the reference compressor writes
SpecCodec == InitCodec /\ [][NextCodec]_vars

\* the literal tokens of the byte values given to the compressor
Literals == { Literal(b) : b \in Bytes }

\* streams of literal tokens only, with no end-of-stream token: 8 of them
\* end at the end of a byte, fewer are followed by padding bits
LiteralRuns ==
  { [toks |-> toks, tail |-> << >>, buffer_size |-> 8] :
      toks \in UNION { [1 .. n -> Literals] : n \in {0, 1, 2, 8} } }

\* the length a back-reference token with a 6-bit offset field stands for
CopyLength(m, add2) == 2 + (2 ^ m - 1) + add2

\* one or two literals, a back-reference of up to one byte more than the
\* bytes decoded, the end of the stream
SingleCopies ==
  { [toks |-> c[1] \o << RawCopy(0, c[2] - 1, c[3], c[4]), EndOfStream >>,
     tail |-> << >>,
     buffer_size |-> Len(c[1]) + CopyLength(c[3], c[4]) + c[5]] :
      c \in { c \in (UNION { [1 .. n -> Literals] : n \in 1 .. 2 }) \X (1 .. 3)
                       \X (0 .. 2) \X (0 .. 3) \X (0 .. 1) :
                c[2] <= Len(c[1]) + 1 /\ c[4] < 2 ^ c[3] } }

\* the longest run of arbitrary bits after the end of the stream
MaxTail == 3

\* what may follow the end-of-stream token: nothing, any few bits, whole
\* tokens, a token that is cut short, a second run of 12 ones
Tails ==
  UNION { [1 .. n -> {0, 1}] : n \in 0 .. MaxTail }
    \cup { Ones(8), [i \in 1 .. 8 |-> 0], RawTokenBits(Literal(170)), EndOfStreamBits,
           RawTokenBits(RawCopy(0, 0, SECOND_RUN_LIMIT, 0)),
           RawTokenBits(RawCopy(0, 5, 0, 0)), RawTokenBits(RawCopy(3, 0, 2, 1)) }

\* up to two literals, the end of the stream, and bits after it; with no
\* literal and no bit after it the data ends with the end-of-stream token
EndedStreams ==
  { [toks |-> c[1] \o << EndOfStream >>, tail |-> c[2], buffer_size |-> Len(c[1]) + c[3]] :
      c \in (UNION { [1 .. n -> Literals] : n \in 0 .. 2 }) \X Tails \X (0 .. 1) }

\* values of a field of width bits: the least, the greatest (but for the
\* 20-bit field, where it is the end of the stream), their neighbours, and
\* one with bits set and clear in turn
FieldValues(width) ==
  IF width = 0 THEN {0}
  ELSE {0, 1, 2 ^ width - 2, (2 ^ (width + 1) \div 3) % (2 ^ width)}
         \cup (IF width = 20 THEN {0} ELSE {2 ^ width - 1})

\* one back-reference token of every class and every second run below 12,
\* on its own: there is no byte to copy from, and no room to copy to
LoneCopies ==
  { [toks |-> << RawCopy(c[1], c[2], c[3], c[4]) >>, tail |-> << >>, buffer_size |-> 0] :
      c \in { c \in (0 .. FIRST_RUN_LIMIT) \X FieldValues(20) \X (0 .. SECOND_RUN_LIMIT - 1)
                       \X FieldValues(SECOND_RUN_LIMIT - 1) :
                /\ c[2] \in FieldValues(_VALUE_BIT_COUNT[c[1] + 1])
                /\ c[4] \in FieldValues(c[3]) } }

\* back-references that write 0 bytes after the bytes 170 and 0 until
\* 65, 577 and 4673 bytes are decoded: the least distances of the classes
Fill(k) ==
  IF k = 1 THEN << RawCopy(0, 0, 5, 30) >>
  ELSE IF k = 2 THEN << RawCopy(0, 0, 9, 62) >>
  ELSE << RawCopy(0, 0, 11, 2047), RawCopy(0, 0, 9, 62) >>

\* the byte 170, 0 bytes up to the least distance of class k or one more,
\* a back-reference of class k, the end of the stream
FarCopies ==
  { [toks |-> << Literal(170), Literal(0) >> \o Fill(c[1])
                \o [i \in 1 .. c[3] |-> Literal(0)]
                \o << RawCopy(c[1], c[2], c[4], c[5]), EndOfStream >>,
     tail |-> << >>,
     buffer_size |-> _OFFSET_TO_ADD[c[1] + 1] + c[3] + (IF c[1] = 3 THEN 3 ELSE 2)
                       + (2 ^ c[4] - 1) + c[5]] :
      c \in { c \in (1 .. 3) \X (0 .. 1) \X (0 .. 1) \X (0 .. 2) \X (0 .. 3) :
                /\ c[2] <= c[3]
                /\ c[5] < 2 ^ c[4]
                /\ c[1] = 3 => (c[3] = 0 /\ c[4] <= 1) } }

\* the bytes a copy with a second run of 12 ones would write at least
OVERLONG == 2 + (2 ^ SECOND_RUN_LIMIT - 1)

\* no or one literal, a back-reference whose second run is 12 ones, the
\* end of the stream; the buffer has no room or room for the copy
OverlongRuns ==
  { [toks |-> c[1] \o << RawCopy(c[2], 0, SECOND_RUN_LIMIT, c[3]), EndOfStream >>,
     tail |-> << >>,
     buffer_size |-> IF c[4] = 0 THEN Len(c[1]) ELSE Len(c[1]) + OVERLONG + 1 + c[3]] :
      c \in (UNION { [1 .. n -> Literals] : n \in 0 .. 1 }) \X (0 .. FIRST_RUN_LIMIT)
               \X (0 .. 1) \X (0 .. 1) }

RawStreams ==
  LiteralRuns \cup SingleCopies \cup EndedStreams \cup LoneCopies \cup FarCopies
    \cup OverlongRuns

InitStream ==
  /\ InitController
  /\ speed = 1 /\ ~no_idle
  /\ jump = NoJump
  /\ search = NoSearch
  /\ NoFiles
  /\ \E s \in RawStreams, header \in Headers :
       codec = [toks |-> s.toks, tail |-> s.tail, buffer_size |-> s.buffer_size,
                data |-> RawData(header, s.toks, s.tail),
                out |-> [ok |-> TRUE, bytes |-> << >>], st |-> "compressed"]

NextStream == Decompress

\* decompress on sequences written token by token
SpecStream == InitStream /\ [][NextStream]_vars

\* streams for buffers of every size up to the bytes they stand for: one to
\* three literals, or one or two literals and a back-reference into them,
\* then the end of the stream
Overflows ==
  { [toks |-> c[1] \o << EndOfStream >>, tail |-> << >>, buffer_size |-> c[2]] :
      c \in { c \in (UNION { [1 .. n -> Literals] : n \in 1 .. 2 }) \X (0 .. 2) :
                c[2] <= Len(c[1]) } }
    \cup
  { [toks |-> c[1] \o << RawCopy(0, c[2] - 1, c[3], c[4]), EndOfStream >>,
     tail |-> << >>, buffer_size |-> c[5]] :
      c \in { c \in (UNION { [1 .. n -> Literals] : n \in 1 .. 2 }) \X (1 .. 2)
                       \X (0 .. 2) \X (0 .. 3) \X (0 .. 2 + CopyLength(2, 3)) :
                /\ c[2] <= Len(c[1])
                /\ c[4] < 2 ^ c[3]
                /\ c[5] <= Len(c[1]) + CopyLength(c[3], c[4]) } }

InitOverflow ==
  /\ InitController
  /\ speed = 1 /\ ~no_idle
  /\ jump = NoJump
  /\ search = NoSearch
  /\ NoFiles
  /\ \E s \in Overflows :
       codec = [toks |-> s.toks, tail |-> s.tail, buffer_size |-> s.buffer_size,
                data |-> RawData(0, s.toks, s.tail),
                out |-> [ok |-> TRUE, bytes |-> << >>], st |-> "compressed"]

NextOverflow == Decompress

\* decompress with an output buffer that is too small, or just large enough
SpecOverflow == InitOverflow /\ [][NextOverflow]_vars

\* the widths (extra_width included) and heights of the images
MaxWidth == 5
MaxHeight == 3
\* a width that takes more than 8 bits
WIDE == 256

\* the row stride of the format: the width rounded up to a multiple of 4
Stride(w) == 4 * ((w + 3) \div 4)

\* a payload of n bytes that differ from their neighbours in the row and in
\* the column
Payload(n) == [i \in 1 .. n |-> i % 256]

\* the tokens a payload is compressed to: a literal for every byte, but
\* for the payload of one byte value, a literal and a copy of the rest
PayloadTokens(payload) ==
  IF Len(payload) = WIDE /\ \A i \in 1 .. WIDE : payload[i] = payload[1]
  THEN << Literal(payload[1]), RawCopy(0, 0, 7, 126), EndOfStream >>
  ELSE [j \in 1 .. Len(payload) |-> Literal(payload[j])] \o << EndOfStream >>

\* an image of every size, compressed and not, with the extra_width values
\* of the caller; the wide one is one row high, and of one byte value
\* when it is compressed
Images ==
  { [size |-> << c[1] - c[3], c[2] >>, extra_width |-> c[3], compressed |-> c[4],
     payload |-> IF c[1] = WIDE /\ c[4] THEN [i \in 1 .. WIDE |-> 7]
                 ELSE Payload(Stride(c[1]) * c[2])] :
      c \in { c \in ((1 .. MaxWidth) \cup {WIDE}) \X (1 .. MaxHeight) \X {0, 2} \X BOOLEAN :
                /\ c[1] - c[3] >= 0
                /\ c[1] = WIDE => c[2] = 1 } }

InitImage ==
  /\ InitController
  /\ speed = 1 /\ ~no_idle
  /\ jump = NoJump
  /\ search = NoSearch
  /\ codec = NoCodec
  /\ reading = NoReading
  /\ buf = NoBuf
  /\ \E i \in Images, header \in Headers :
       image = [size |-> i.size, extra_width |-> i.extra_width,
                compressed |-> i.compressed, payload |-> i.payload,
                data |-> IF i.compressed
                         THEN RawData(header, PayloadTokens(i.payload), << >>)
                         ELSE i.payload,
                out |-> NoRaster, st |-> "input"]

\* decompress_paletted_image(data, size, compressed, extra_width)
DecompressPalettedImage ==
  /\ image.st = "input"
  /\ image' = [image EXCEPT
                 !.out = decompress_paletted_image(image.data, image.size,
                                                   image.compressed, image.extra_width),
                 !.st = "done"]
  /\ UNCHANGED << config, exit_requested, tasks, _anim_task, says, _say_task, obs, jump,
                  observers, search, codec, reading, buf >>

NextImage == DecompressPalettedImage

\* decompress_paletted_image on rasters of rows padded to the stride
SpecImage == InitImage /\ [][NextImage]_vars

\* the images of a character file
MaxImages == 3

\* _read_image whatever the progress dialog says
_read_image_unchecked(r) ==
  IF r.corrupt = r.progress
  THEN [r EXCEPT !.st = "raised", !.exception = "ValueError"]
  ELSE [r EXCEPT !.decoded = Append(@, r.progress), !.progress = @ + 1]

\* _read_image, the element reader of read_paletted_images (lines 129-143),
\* for the image of index progress: with a progress dialog it raises
\* when the dialog was cancelled, before read_image; read_image raises on
\* an image whose data does not fit its size
_read_image(r) ==
  IF r.gui /\ r.cancelled
  THEN [r EXCEPT !.st = "raised", !.exception = "ImageDecompressionInterrupt"]
  ELSE IF r.corrupt = r.progress
  THEN [r EXCEPT !.st = "raised", !.exception = "ValueError"]
  ELSE [r EXCEPT !.decoded = Append(@, r.progress), !.progress = @ + 1]

\* a call make_sure_image_cache_exists(...) on a file of count images, of
\* which the one of index corrupt (if below count) does not decode, with
\* the cache there, unreadable, or missing
InitReading ==
  /\ InitController
  /\ speed = 1 /\ ~no_idle
  /\ jump = NoJump
  /\ search = NoSearch
  /\ codec = NoCodec
  /\ image = NoImage
  /\ buf = NoBuf
  /\ \E count \in 0 .. MaxImages, corrupt \in 0 .. MaxImages, gui \in BOOLEAN,
        cache \in {"good", "corrupt", "missing"} :
       reading = [st |-> "attempt 0", cache |-> cache, gui |-> gui, count |-> count,
                  corrupt |-> IF corrupt < count THEN corrupt ELSE MaxImages,
                  progress |-> 0, decoded |-> << >>, cancelled |-> FALSE,
                  cancelled_before |-> 0, exception |-> "", written |-> FALSE,
                  returned |-> FALSE]

\* the first attempt (lines 55-68): the cache is returned, or the failure
\* to read it is caught and read_paletted_images starts
LookUpCache ==
  /\ reading.st = "attempt 0"
  /\ reading' = IF reading.cache = "good"
                THEN [reading EXCEPT !.st = "returned", !.returned = TRUE]
                ELSE [reading EXCEPT !.st = "decoding"]
  /\ UNCHANGED << config, exit_requested, tasks, _anim_task, says, _say_task, obs, jump,
                  observers, search, codec, image, buf >>

\* the user presses Cancel on the progress dialog while an image is still
\* to be read
Cancel ==
  /\ reading.st = "decoding"
  /\ reading.gui
  /\ ~reading.cancelled
  /\ reading.progress < reading.count
  /\ reading' = [reading EXCEPT !.cancelled = TRUE, !.cancelled_before = reading.progress]
  /\ UNCHANGED << config, exit_requested, tasks, _anim_task, says, _say_task, obs, jump,
                  observers, search, codec, image, buf >>

\* read_list calls the element reader for the next image
ReadImage ==
  /\ reading.st = "decoding"
  /\ reading.progress < reading.count
  /\ reading' = _read_image(reading)
  /\ UNCHANGED << config, exit_requested, tasks, _anim_task, says, _say_task, obs, jump,
                  observers, search, codec, image, buf >>

\* read_paletted_images returns the list and save_cache writes the cache
\* (line 69); max() of no image raises ValueError (line 28)
SaveCache ==
  /\ reading.st = "decoding"
  /\ reading.progress = reading.count
  /\ reading' = IF reading.count = 0
                THEN [reading EXCEPT !.st = "raised", !.exception = "ValueError"]
                ELSE [reading EXCEPT !.st = "attempt 1", !.written = TRUE, !.cache = "good"]
  /\ UNCHANGED << config, exit_requested, tasks, _anim_task, says, _say_task, obs, jump,
                  observers, search, codec, image, buf >>

\* the second attempt (lines 55-63) reads the cache just written
LookUpAgain ==
  /\ reading.st = "attempt 1"
  /\ reading' = [reading EXCEPT !.st = "returned", !.returned = TRUE]
  /\ UNCHANGED << config, exit_requested, tasks, _anim_task, says, _say_task, obs, jump,
                  observers, search, codec, image, buf >>

NextReading ==
  \/ LookUpCache
  \/ Cancel
  \/ ReadImage
  \/ SaveCache
  \/ LookUpAgain

\* make_sure_image_cache_exists and the user at the progress dialog
SpecReading == InitReading /\ [][NextReading]_vars

\* the 4 bytes of an unsigned long
LE32(v) == << v % 256, (v \div 256) % 256, (v \div 65536) % 256, (v \div 16777216) % 256 >>

\* the element readers given to read_list: lambda b: b.read(),
\* Buffer.read_ushort, and a reader that declares a length parameter and
\* reads an unsigned short
Readers == {"read", "read_ushort", "sized"}

\* inspect.getfullargspec(elem_reader): the reader has a length argument
HasLengthArg(reader) == reader = "sized"

RECURSIVE read_list(_, _, _, _, _)

RECURSIVE CallReader(_, _, _, _, _)

\* the decoding of buf stopped with the exception error
Raised(error, b) == [ok |-> FALSE, value |-> error, b |-> b]

\* limit=None
NoLimit == [given |-> FALSE, value |-> 0]

\* the number v of a field of width bytes, read as a signed one
Signed(v, width) ==
  IF width = 2 THEN (IF v >= 32768 THEN v - 65536 ELSE v)
  ELSE IF width = 1 THEN (IF v >= 128 THEN v - 256 ELSE v)
  ELSE v

SignedBytes(r) == [r EXCEPT !.value = Signed(from_bytes(@), Len(@))]

\* read_integer(2, True): the bytes that are there, as a signed number
read_short(root, b) == SignedBytes(read_bytes(root, b, 2))

\* UUID(bytes=...) of the bytes read: a ValueError unless they are 16
GuidBytes(r) == IF Len(r.value) = 16 THEN r ELSE Raised("ValueError", r.b)

\* CharacterInfo._skip_balloon_info(buf)
_skip_balloon_info(root, b) ==
  skip(read_string(root, skip(b, 1 + 1 + 4 + 4 + 4)).b, 4 + 4 + 1 + 1)

Skipped(b) == [ok |-> TRUE, value |-> << >>, b |-> b]

\* the result r of a reader called on another Buffer, seen from the Buffer b
Back(r, b) == [ok |-> r.ok, value |-> r.value, b |-> b]

\* the list that read_list returned, or its exception
ListRead(r) == [ok |-> r.ok, value |-> r.value, b |-> r.b]

\* reader(buf.locator()): the reader runs on the Buffer the locator gives
ReadAt(root, loc, reader) ==
  IF loc.ok THEN Back(CallReader(root, loc.value, reader, 0, FALSE), loc.b) ELSE loc

\* buf.locator().read_list(reader, count_type)
ReadListAt(root, loc, reader, count_type) ==
  IF loc.ok THEN Back(read_list(root, loc.value, reader, count_type, NoLimit), loc.b) ELSE loc

\* one read of a constructor, in the order of its statements: field[1] is
\* the Buffer method, the other entries are its arguments
ReadField(root, b, field) ==
  IF field[1] = "read" THEN read(root, b)
  ELSE IF field[1] = "read_ushort" THEN read_ushort(root, b)
  ELSE IF field[1] = "read_short" THEN read_short(root, b)
  ELSE IF field[1] = "read_ulong" THEN read_ulong(root, b)
  ELSE IF field[1] = "read_string" THEN read_string(root, b)
  ELSE IF field[1] = "guid" THEN GuidBytes(read_bytes(root, b, 16))
  ELSE IF field[1] = "_skip_balloon_info" THEN Skipped(_skip_balloon_info(root, b))
  ELSE IF field[1] = "locator" THEN ReadAt(root, locator(root, b, TRUE), field[2])
  ELSE IF field[1] = "locator.read_list"
  THEN ReadListAt(root, locator(root, b, TRUE), field[2], field[3])
  ELSE ListRead(read_list(root, b, field[2], field[3], NoLimit))

RECURSIVE ReadFields(_, _, _)

\* the value v in front of the values of the reads after it
Before(v, rest) == IF rest.ok THEN [rest EXCEPT !.value = << v >> \o @] ELSE rest

\* the reads after the read r: none when r raised
ReadOn(root, r, fields) ==
  IF r.ok THEN Before(r.value, ReadFields(root, r.b, fields)) ELSE r

\* the reads of a constructor one after the other, until one raises: value
\* holds what each of them returned
ReadFields(root, b, fields) ==
  IF fields = << >> THEN [ok |-> TRUE, value |-> << >>, b |-> b]
  ELSE ReadOn(root, ReadField(root, b, Head(fields)), Tail(fields))

\* the value of a result that returned, as the code names its parts
Named(r, value) == IF r.ok THEN [r EXCEPT !.value = value] ELSE r

LocalizedInfoValue(v) ==
  [numeric_lang_id |-> v[1], name |-> v[2], description |-> v[3], extra_data |-> v[4]]

LocalizedInfoOf(r) == IF r.ok THEN [r EXCEPT !.value = LocalizedInfoValue(@)] ELSE r

\* localized_info(buf): the language id and three strings
localized_info(root, b) ==
  LocalizedInfoOf(ReadFields(root, b,
    << << "read_ushort" >>, << "read_string" >>, << "read_string" >>, << "read_string" >> >>))

FrameImageOf(r) ==
  IF r.ok THEN [r EXCEPT !.value = [image_idx |-> @[1], offset |-> << @[2], @[3] >>]] ELSE r

\* frame_image(buf)
frame_image(root, b) ==
  FrameImageOf(ReadFields(root, b, << << "read_ulong" >>, << "read_short" >>, << "read_short" >> >>))

BranchInfoOf(r) ==
  IF r.ok THEN [r EXCEPT !.value = [jump_target_idx |-> @[1], prob_percent |-> @[2]]] ELSE r

\* branch_info(buf)
branch_info(root, b) ==
  BranchInfoOf(ReadFields(root, b, << << "read_ushort" >>, << "read_ushort" >> >>))

FrameInfoValue(v) ==
  [frame_images |-> v[1], audio_idx |-> v[2], duration_centiseconds |-> v[3],
   exit_index |-> v[4], branch_infos |-> v[5]]

\* a frame with a mouth overlay is refused
FrameInfoRead(r) ==
  IF ~r.ok THEN r
  ELSE IF r.value[6] > 0 THEN Raised("NotImplementedError", r.b)
  ELSE [r EXCEPT !.value = FrameInfoValue(@)]

\* FrameInfo(buf)
FrameInfoOf(root, b) ==
  FrameInfoRead(ReadFields(root, b,
    << << "read_list", "frame_image", "ushort" >>, << "read_ushort" >>, << "read_ushort" >>,
       << "read_short" >>, << "read_list", "branch_info", "byte" >>, << "read" >> >>))

AnimInfoRead(r) ==
  IF r.ok
  THEN [r EXCEPT !.value = [name |-> @[1], transition_type |-> @[2],
                            return_anim_name |-> @[3], frames |-> @[4]]]
  ELSE r

\* AnimInfo(buf)
AnimInfoOf(root, b) ==
  AnimInfoRead(ReadFields(root, b,
    << << "read_string" >>, << "read" >>, << "read_string" >>,
       << "read_list", "FrameInfo", "ushort" >> >>))

AnimInfoNamed(r) == IF r.ok THEN [r EXCEPT !.value = @[2]] ELSE r

\* anim_info(buf): the name, and the AnimInfo the locator after it points to
anim_info(root, b) ==
  AnimInfoNamed(ReadFields(root, b, << << "read_string" >>, << "locator", "AnimInfo" >> >>))

\* mv[:-4]
SoundData(data) == SubSeq(data, 1, Len(data) - 4)

SoundOf(root, loc) ==
  IF loc.ok THEN [ok |-> TRUE, value |-> SoundData(Mv(root, loc.value)), b |-> skip(loc.b, 4)]
  ELSE loc

\* _load_sound(b) of make_sure_sound_cache_exists: the bytes the locator
\* points to without the last 4, and 4 bytes skipped behind the locator
_load_sound(root, b) == SoundOf(root, locator(root, b, TRUE))

\* lambda b: (b.read_string(), b.read_list(Buffer.read_string, count_type='ushort')),
\* the reader of the state table
state_info(root, b) ==
  ReadFields(root, b, << << "read_string" >>, << "read_list", "read_string", "ushort" >> >>)

\* a reader that declares a length parameter and reads an unsigned short
Sized(r, length, has_length_arg) ==
  IF has_length_arg THEN [r EXCEPT !.value = [elem |-> @, length |-> length]] ELSE r

\* elem_reader(self) or elem_reader(self, length=length)
CallReader(root, b, reader, length, has_length_arg) ==
  IF reader = "read" THEN read(root, b)
  ELSE IF reader = "read_string" THEN read_string(root, b)
  ELSE IF reader = "localized_info" THEN localized_info(root, b)
  ELSE IF reader = "state_info" THEN state_info(root, b)
  ELSE IF reader = "frame_image" THEN frame_image(root, b)
  ELSE IF reader = "branch_info" THEN branch_info(root, b)
  ELSE IF reader = "FrameInfo" THEN FrameInfoOf(root, b)
  ELSE IF reader = "AnimInfo" THEN AnimInfoOf(root, b)
  ELSE IF reader = "anim_info" THEN anim_info(root, b)
  ELSE IF reader = "_load_sound" THEN _load_sound(root, b)
  ELSE Sized(read_ushort(root, b), length, has_length_arg)

\* what a call of the reader was given: the cursor, and the length if any
Call(b, length, has_length_arg) ==
  [pos |-> b.pos, length |-> IF has_length_arg THEN << length >> ELSE << >>]

RECURSIVE ReadElems(_, _, _, _, _, _)

\* the list of the one call r
OneElem(r, call) ==
  [ok |-> r.ok, value |-> IF r.ok THEN << r.value >> ELSE r.value, calls |-> << call >>,
   b |-> r.b]

\* the calls first, then the calls rest
Joined(first, rest) ==
  [ok |-> rest.ok, value |-> IF rest.ok THEN first.value \o rest.value ELSE rest.value,
   calls |-> first.calls \o rest.calls, b |-> rest.b]

\* n more calls after the calls first, none when one of them raised
ElemsAfter(root, first, reader, length, has_length_arg, n) ==
  IF first.ok
  THEN Joined(first, ReadElems(root, first.b, reader, length, has_length_arg, n))
  ELSE first

\* the list comprehension: n calls one after the other, until one raises;
\* (computed by halves: the first half of the calls, then the others)
ReadElems(root, b, reader, length, has_length_arg, n) ==
  IF n = 0 THEN [ok |-> TRUE, value |-> << >>, calls |-> << >>, b |-> b]
  ELSE IF n = 1
  THEN OneElem(CallReader(root, b, reader, length, has_length_arg),
               Call(b, length, has_length_arg))
  ELSE ElemsAfter(root, ReadElems(root, b, reader, length, has_length_arg, n \div 2),
                  reader, length, has_length_arg, n - n \div 2)

\* the lengths that _read_list refuses start here
LENGTH_LIMIT == 65536

\* _read_list that lets a length of 65536 pass
_read_list_above(root, b, reader, length, has_length_arg) ==
  IF length > LENGTH_LIMIT
  THEN [ok |-> FALSE, value |-> "ValueError", calls |-> << >>, b |-> b]
  ELSE ReadElems(root, b, reader, length, has_length_arg, length)

\* _read_list(elem_reader, length, has_length_arg)
_read_list(root, b, reader, length, has_length_arg) ==
  IF length >= LENGTH_LIMIT
  THEN [ok |-> FALSE, value |-> "ValueError", calls |-> << >>, b |-> b]
  ELSE ReadElems(root, b, reader, length, has_length_arg, length)

\* min(limit, length)
Limited(limit, length) ==
  IF limit.given /\ limit.value < length THEN limit.value ELSE length

\* the list of the count n that was read
ListOf(root, n, reader, limit) ==
  IF n.ok THEN _read_list(root, n.b, reader, Limited(limit, n.value), HasLengthArg(reader))
  ELSE [ok |-> FALSE, value |-> n.value, calls |-> << >>, b |-> n.b]

\* read_list(elem_reader, count_type, limit)
read_list(root, b, reader, count_type, limit) ==
  ListOf(root,
         IF count_type = "byte" THEN read(root, b)
         ELSE IF count_type = "ushort" THEN read_ushort(root, b)
         ELSE read_ulong(root, b),
         reader, limit)

\* the language ids of _LOCALES
_LOCALES ==
  { 1025, 1028, 1029, 1030, 1031, 1032, 9, 1035, 1036, 1037, 1038, 1040, 1041, 1042, 1043,
    1044, 1045, 1046, 1048, 1049, 1050, 1051, 1053, 1054, 1055, 1060, 1069, 2052, 2070, 3082 }

\* the palette of count rows read from the bytes data: blue and red change
\* places, alpha is 255, and the row transparency_index is all 0
Palette(data, count, transparency_index) ==
  [i \in 1 .. count |->
     IF i = transparency_index + 1 THEN << 0, 0, 0, 0 >>
     ELSE << data[4 * i - 1], data[4 * i - 2], data[4 * i - 3], 255 >>]

\* the dict of the infos whose language id is in _LOCALES: of two infos of
\* one language the later one stays
LocalizedInfos(list) ==
  { list[i] : i \in { i \in DOMAIN list :
      /\ list[i].numeric_lang_id \in _LOCALES
      /\ \A j \in DOMAIN list : j > i => list[j].numeric_lang_id # list[i].numeric_lang_id } }

\* the state table that was read, in the CharacterInfo
WithStates(info, states) ==
  IF states.ok THEN [ok |-> TRUE, value |-> [info EXCEPT !.state_infos = states.value], b |-> states.b]
  ELSE Raised(states.value, states.b)

\* after the tray icon byte: the state table unless an icon is present
AfterTray(root, tray, info) ==
  IF ~tray.ok THEN tray
  ELSE IF tray.value = 1 THEN Raised("NotImplementedError", tray.b)
  ELSE WithStates(info, read_list(root, tray.b, "state_info", "ushort", NoLimit))

\* the header after the palette: the tray icon byte and the state table
StateTable(root, b, info) == AfterTray(root, read(root, b), info)

\* the reads of CharacterInfo up to the palette size
CharacterFields ==
  << << "read_ushort" >>, << "read_ushort" >>,
     << "locator.read_list", "localized_info", "ushort" >>, << "guid" >>,
     << "read_ushort" >>, << "read_ushort" >>, << "read" >>,
     << "read_ulong" >>, << "read_ushort" >>, << "read_ushort" >>,
     << "_skip_balloon_info" >>, << "read_ulong" >> >>

\* the CharacterInfo of the values v read up to the palette size and of the
\* bytes data of the palette
CharacterValue(v, data) ==
  [localized_infos |-> LocalizedInfos(v[3]),
   guid |-> v[4],
   character_size |-> << v[5], v[6] >>,
   transparency_index |-> v[7],
   palette |-> Palette(data, v[12], v[7]),
   state_infos |-> << >>]

\* the palette bytes that were read: reshape needs them all, and the
\* transparent colour has to be one of the palette
WithPalette(root, v, palette) ==
  IF Len(palette.value) # v[12] * 4 THEN Raised("ValueError", palette.b)
  ELSE IF v[7] >= v[12] THEN Raised("IndexError", palette.b)
  ELSE StateTable(root, palette.b, CharacterValue(v, palette.value))

CharacterRead(root, r) ==
  IF r.ok THEN WithPalette(root, r.value, read_bytes(root, r.b, r.value[12] * 4)) ELSE r

\* CharacterInfo(buf): value is the CharacterInfo, or the exception
CharacterInfo(root, b) == CharacterRead(root, ReadFields(root, b, CharacterFields))

\* the element bytes after the count
MaxElems == 3

\* the counts: none and few, and the most that pass with the least that do not
Counts == {0, 1, 2, 3, 255, 256}

EdgeCounts == {65535, 65536, 65537}

\* roots: a count of 4 bytes and up to MaxElems bytes of elements
ListRoots ==
  { LE32(c[1]) \o [i \in 1 .. c[2] |-> 4 + i] : c \in Counts \X (0 .. MaxElems) }
    \cup { LE32(c) \o << 5, 6, 7 >> : c \in EdgeCounts }
    \cup { << >> }

Limits == { NoLimit, [given |-> TRUE, value |-> 2], [given |-> TRUE, value |-> LENGTH_LIMIT] }

InitList ==
  /\ InitController
  /\ speed = 1 /\ ~no_idle
  /\ jump = NoJump
  /\ search = NoSearch
  /\ codec = NoCodec
  /\ image = NoImage
  /\ reading = NoReading
  /\ \E root \in ListRoots, reader \in Readers, count_type \in {"byte", "ushort", "ulong"},
        limit \in Limits :
       buf = [st |-> "list", root |-> root, b |-> RootBuffer(root), reader |-> reader,
              count_type |-> count_type, limit |-> limit]

\* b.read_list(reader, count_type, limit) returns or raises
ReadList ==
  /\ buf.st = "list"
  /\ LET r == read_list(buf.root, buf.b, buf.reader, buf.count_type, buf.limit)
     IN buf' = [st |-> "read", root |-> buf.root, before |-> buf.b, b |-> r.b,
                reader |-> buf.reader, count_type |-> buf.count_type, limit |-> buf.limit,
                ok |-> r.ok, value |-> r.value, calls |-> r.calls]
  /\ UNCHANGED << config, exit_requested, tasks, _anim_task, says, _say_task, obs, jump,
                  observers, search, codec, image, reading >>

NextList == ReadList

\* one read_list on a Buffer
SpecList == InitList /\ [][NextList]_vars

\* the bytes of a string: the count, the code units, and a null after them
\* when there are any
RECURSIVE Units(_)
Units(s) ==
  IF s = << >> THEN << >>
  ELSE << Head(s) % 256, Head(s) \div 256 >> \o Units(Tail(s))

StringBytes(s) == LE32(Len(s)) \o Units(s) \o (IF s = << >> THEN << >> ELSE << 0, 0 >>)

LE16(v) == << v % 256, v \div 256 >>

\* the bytes of the lists of a header
RECURSIVE Concat(_)
Concat(seqs) == IF seqs = << >> THEN << >> ELSE Head(seqs) \o Concat(Tail(seqs))

StringListBytes(list) ==
  LE16(Len(list)) \o Concat([i \in DOMAIN list |-> StringBytes(list[i])])

StateTableBytes(states) ==
  LE16(Len(states))
    \o Concat([i \in DOMAIN states |->
                 StringBytes(states[i][1]) \o StringListBytes(states[i][2])])

LocalizedListBytes(infos) ==
  LE16(Len(infos))
    \o Concat([i \in DOMAIN infos |->
                 LE16(infos[i].numeric_lang_id) \o StringBytes(infos[i].name)
                   \o StringBytes(infos[i].description) \o StringBytes(infos[i].extra_data)])

\* the bytes of a character header h that starts at the byte base of its
\* file, from the two reserved shorts to the palette, with the list of
\* localized infos behind everything else
HeaderStart(h, rest, base) ==
  LET fixed == [i \in 1 .. 16 |-> 0] \o LE16(3) \o LE16(2) \o << h.transparency_index >>
                 \o LE32(0) \o LE16(0) \o LE16(0)
                 \o [i \in 1 .. 14 |-> 0] \o StringBytes(<< >>) \o [i \in 1 .. 10 |-> 0]
                 \o LE32(h.palette_size) \o [i \in 1 .. 4 * h.palette_size |-> i]
      infos == LocalizedListBytes(h.localized_infos)
  IN LE16(0) \o LE16(0) \o LE32(base + 12 + Len(fixed) + Len(rest)) \o LE32(Len(infos))
       \o fixed \o rest \o infos

\* the header with its tray icon byte and state table, or cut before them
HeaderAt(h, base) ==
  HeaderStart(h, IF h.cut THEN << >> ELSE << h.tray >> \o StateTableBytes(h.states), base)

HeaderBytes(h) == HeaderAt(h, 0)

\* the entries of a state table
MaxStates == 2

StateEntries == { << << 19 >>, << >> >>, << << 8, 9 >>, << << 19, 8 >> >> >> }

StateTables == UNION { [1 .. n -> StateEntries] : n \in 0 .. MaxStates }

LocalizedLists ==
  { << >>,
    << [numeric_lang_id |-> 9, name |-> << 11 >>, description |-> << >>, extra_data |-> << >>] >>,
    << [numeric_lang_id |-> 7, name |-> << 11 >>, description |-> << 12 >>, extra_data |-> << >>],
       [numeric_lang_id |-> 1041, name |-> << >>, description |-> << >>, extra_data |-> << 13 >>] >> }

\* the tray icon bytes
TrayBytes == {0, 1, 2, 3, 255}

Headers32 ==
  [tray : TrayBytes, palette_size : 1 .. 2, transparency_index : 0 .. 1, states : StateTables,
   localized_infos : LocalizedLists, cut : BOOLEAN]

InitCharacter ==
  /\ InitController
  /\ speed = 1 /\ ~no_idle
  /\ jump = NoJump
  /\ search = NoSearch
  /\ codec = NoCodec
  /\ image = NoImage
  /\ reading = NoReading
  /\ \E h \in Headers32 :
       buf = [st |-> "header", header |-> h, root |-> HeaderBytes(h)]

\* CharacterInfo(buf) returns or raises
DecodeCharacter ==
  /\ buf.st = "header"
  /\ LET r == CharacterInfo(buf.root, RootBuffer(buf.root))
     IN buf' = [st |-> "decoded", header |-> buf.header, root |-> buf.root,
                ok |-> r.ok, value |-> r.value, b |-> r.b]
  /\ UNCHANGED << config, exit_requested, tasks, _anim_task, says, _say_task, obs, jump,
                  observers, search, codec, image, reading >>

NextCharacter == DecodeCharacter

\* the decoding of one character header
SpecCharacter == InitCharacter /\ [][NextCharacter]_vars

\* the 2 bytes of a signed short
LE16S(v) == LE16((v + 65536) % 65536)

\* the bytes of a frame, an animation and the lists of a container
FrameBytes(f) ==
  LE16(Len(f.frame_images))
    \o Concat([i \in DOMAIN f.frame_images |->
                 LE32(f.frame_images[i].image_idx) \o LE16S(f.frame_images[i].offset[1])
                   \o LE16S(f.frame_images[i].offset[2])])
    \o LE16(f.audio_idx) \o LE16(f.duration_centiseconds) \o LE16S(f.exit_index)
    \o << Len(f.branch_infos) >>
    \o Concat([i \in DOMAIN f.branch_infos |->
                 LE16(f.branch_infos[i].jump_target_idx) \o LE16(f.branch_infos[i].prob_percent)])
    \o << f.overlay >>

AnimBytes(a) ==
  StringBytes(a.name) \o << a.transition_type >> \o StringBytes(a.return_anim_name)
    \o LE16(Len(a.frames)) \o Concat([i \in DOMAIN a.frames |-> FrameBytes(a.frames[i])])

\* a list of blocks at the byte base: the count, an entry for every block
\* (what is before its locator, the locator, what is behind it), and the
\* blocks one after the other behind the entries
RECURSIVE BlockOffsets(_, _)
BlockOffsets(blocks, from) ==
  IF blocks = << >> THEN << >>
  ELSE << from >> \o BlockOffsets(Tail(blocks), from + Len(Head(blocks)))

LocatedListBytes(before, blocks, behind, base) ==
  LET entries == 4 + Len(Concat(before)) + 8 * Len(blocks) + Len(behind) * Len(blocks)
      at == BlockOffsets(blocks, base + entries)
  IN LE32(Len(blocks))
       \o Concat([i \in DOMAIN blocks |->
                    before[i] \o LE32(at[i]) \o LE32(Len(blocks[i])) \o behind])
       \o Concat(blocks)

AnimListBytes(anims, base) ==
  LocatedListBytes([i \in DOMAIN anims |-> StringBytes(anims[i].name)],
                   [i \in DOMAIN anims |-> AnimBytes(anims[i])], << >>, base)

SoundListBytes(sounds, base) ==
  LocatedListBytes([i \in DOMAIN sounds |-> << >>], sounds, << 0, 0, 0, 0 >>, base)

\* the container f: its first 4 bytes, the locators of the character
\* header, the animations, the images and the sounds, and these four
AcsBytes(f) ==
  LET header == HeaderAt(f.header, 36)
      anims == AnimListBytes(f.animations, 36 + Len(header))
      sound_list == SoundListBytes(f.sounds, 36 + Len(header) + Len(anims))
      images == LE32(f.images)
  IN f.magic \o LE32(36) \o LE32(Len(header))
       \o LE32(36 + Len(header)) \o LE32(Len(anims))
       \o LE32(36 + Len(header) + Len(anims) + Len(sound_list)) \o LE32(Len(images))
       \o LE32(36 + Len(header) + Len(anims)) \o LE32(Len(sound_list))
       \o header \o anims \o sound_list \o images

\* the magic number of a container
MAGIC == << 195, 171, 205, 171 >>

\* the first 4 bytes of the files: the magic number and others
Magics ==
  { MAGIC, << 195, 171, 205, 170 >>, << 194, 171, 205, 171 >>, << 171, 205, 171, 195 >>,
    << 0, 0, 0, 0 >>, << 195, 171, 205 >>, << >> }

\* a frame of one image and one branch, with and without the overlay byte
FrameOf(overlay) ==
  [frame_images |-> << [image_idx |-> 0, offset |-> << 2, -1 >>] >>, audio_idx |-> 65535,
   duration_centiseconds |-> 10, exit_index |-> -1,
   branch_infos |-> << [jump_target_idx |-> 0, prob_percent |-> 50] >>, overlay |-> overlay]

AnimOf(list) ==
  [name |-> << 19, 8 >>, transition_type |-> 2, return_anim_name |-> << >>, frames |-> list]

AnimLists ==
  { << >>, << AnimOf(<< >>) >>, << AnimOf(<< FrameOf(0), FrameOf(0) >>) >>,
    << AnimOf(<< FrameOf(0) >>), AnimOf(<< FrameOf(1) >>) >> }

SoundLists == { << >>, << << 1, 2, 3, 4, 5, 6 >>, << 7 >> >> }

LoadedHeaders ==
  { [tray |-> t, palette_size |-> 2, transparency_index |-> 1,
     states |-> << << << 19 >>, << << 19, 8 >> >> >> >>,
     localized_infos |-> << [numeric_lang_id |-> 9, name |-> << 11 >>,
                             description |-> << >>, extra_data |-> << >>] >>,
     cut |-> FALSE] : t \in {0, 1} }

AcsFiles ==
  [magic : Magics, header : LoadedHeaders, animations : AnimLists, sounds : SoundLists,
   images : 0 .. 1]

\* a test of the first 2 bytes only
WrongMagicStart(root) == SubSeq(root, 1, IF Len(root) < 2 THEN Len(root) ELSE 2) # SubSeq(MAGIC, 1, 2)

\* bytes(buf[:4]) != b'\xc3\xab\xcd\xab', the test of the first 4 bytes
WrongMagic(root) == SubSeq(root, 1, IF Len(root) < 4 THEN Len(root) ELSE 4) # MAGIC

\* AcsFile(name, buf) is called on the bytes of a file
InitLoad ==
  /\ InitController
  /\ speed = 1 /\ ~no_idle
  /\ jump = NoJump
  /\ search = NoSearch
  /\ codec = NoCodec
  /\ image = NoImage
  /\ reading = NoReading
  /\ \E f \in AcsFiles :
       buf = [st |-> "magic", file |-> f, root |-> AcsBytes(f), events |-> << >>,
              error |-> "", acs |-> << >>]

\* the step of __init__ that resolves the locator at the byte at of the
\* file and decodes what it points to (r) went well, with the value as the
\* next attribute of the AcsFile, or raised
LoadStep(at, r, section, then) ==
  /\ buf' = IF r.ok
            THEN [buf EXCEPT !.st = then, !.acs = Append(@, r.value),
                             !.events = @ \o << << "locator", at >>, << "decoded", section >> >>]
            ELSE [buf EXCEPT !.st = "failed", !.error = r.value,
                             !.events = @ \o << << "locator", at >> >>]
  /\ UNCHANGED << config, exit_requested, tasks, _anim_task, says, _say_task, obs, jump,
                  observers, search, codec, image, reading >>

\* buf[at:].locator(), and reader called on the Buffer it gives
Located(root, at, section) ==
  LET loc == locator(root, Slice(RootBuffer(root), at), TRUE)
  IN IF ~loc.ok THEN loc
     ELSE IF section = "character" THEN CharacterInfo(root, loc.value)
     ELSE IF section = "animations" THEN read_list(root, loc.value, "anim_info", "ulong", NoLimit)
     ELSE read_list(root, loc.value, "_load_sound", "ulong", NoLimit)

\* lines 28-34: the first 4 bytes are compared with the magic number
CheckMagic ==
  /\ buf.st = "magic"
  /\ buf' = IF WrongMagic(buf.root)
            THEN [buf EXCEPT !.st = "failed", !.error = "ValueError"]
            ELSE [buf EXCEPT !.st = "character"]
  /\ UNCHANGED << config, exit_requested, tasks, _anim_task, says, _say_task, obs, jump,
                  observers, search, codec, image, reading >>

\* line 36: character_info(buf[4:].locator())
LoadCharacterInfo ==
  /\ buf.st = "character"
  /\ LoadStep(4, Located(buf.root, 4, "character"), "character", "animations")

\* lines 37-38: buf[12:].locator().read_list(anim_info, 'ulong')
LoadAnimations ==
  /\ buf.st = "animations"
  /\ LoadStep(12, Located(buf.root, 12, "animations"), "animations", "sounds")

\* line 39: make_sure_sound_cache_exists(cache_dir, buf[28:].locator())
LoadSounds ==
  /\ buf.st = "sounds"
  /\ LoadStep(28, Located(buf.root, 28, "sounds"), "sounds", "images")

\* lines 42-44: buf[20:].locator(), and make_sure_image_cache_exists is
\* called on the images it points to, with the cache and the dialog of the call
LoadImages ==
  /\ buf.st = "images"
  /\ LET loc == locator(buf.root, Slice(RootBuffer(buf.root), 20), TRUE)
         count == read_ulong(buf.root, loc.value)
     IN IF ~loc.ok
        THEN /\ buf' = [buf EXCEPT !.st = "failed", !.error = loc.value,
                                   !.events = Append(@, << "locator", 20 >>)]
             /\ UNCHANGED reading
        ELSE /\ buf' = [buf EXCEPT !.st = "cache", !.events = Append(@, << "locator", 20 >>)]
             /\ \E gui \in BOOLEAN, cache \in {"good", "corrupt", "missing"},
                   corrupt \in 0 .. 1 :
                  reading' = [st |-> "attempt 0", cache |-> cache, gui |-> gui,
                              count |-> count.value,
                              corrupt |-> IF corrupt < count.value THEN corrupt ELSE MaxImages,
                              progress |-> 0, decoded |-> << >>, cancelled |-> FALSE,
                              cancelled_before |-> 0, exception |-> "", written |-> FALSE,
                              returned |-> FALSE]
  /\ UNCHANGED << config, exit_requested, tasks, _anim_task, says, _say_task, obs, jump,
                  observers, search, codec, image >>

\* make_sure_image_cache_exists returns or raises, and so does __init__
FinishLoad ==
  /\ buf.st = "cache"
  /\ reading.st \in {"returned", "raised"}
  /\ buf' = IF reading.st = "returned"
            THEN [buf EXCEPT !.st = "loaded", !.acs = Append(@, "sprites"),
                             !.events = Append(@, << "decoded", "images" >>)]
            ELSE [buf EXCEPT !.st = "failed", !.error = reading.exception]
  /\ UNCHANGED << config, exit_requested, tasks, _anim_task, says, _say_task, obs, jump,
                  observers, search, codec, image, reading >>

NextLoad ==
  \/ CheckMagic
  \/ LoadCharacterInfo
  \/ LoadAnimations
  \/ LoadSounds
  \/ LoadImages
  \/ LookUpCache
  \/ Cancel
  \/ ReadImage
  \/ SaveCache
  \/ LookUpAgain
  \/ FinishLoad

\* the loading of a container, statement after statement
SpecLoad == InitLoad /\ [][NextLoad]_vars

\* the operations applied to a Buffer one after the other
MaxOps == 2

\* (the bytes are small, so that twice the number 4 of them make stays
\* below 2^31)
\* roots that start, after no or two bytes, with an (address, size) pair:
\* the sizes end before the end of the root, at it, and one byte after it
LocatorRoots ==
  { c[1] \o LE32(c[3]) \o LE32(c[4]) \o c[2] :
      c \in { c \in {<< >>, << 9, 9 >>} \X {<< >>, << 5, 0, 6 >>} \X (0 .. 14) \X (0 .. 15) :
                LET n == Len(c[1]) + 8 + Len(c[2])
                IN /\ c[3] \in {0, 2, n - 3, n - 1, n, n + 1}
                   /\ c[4] \in {0, 1, 3, n - c[3], n - c[3] + 1} } }
    \cup { LE32(256) \o LE32(0), LE32(0) \o LE32(256), LE32(65536) \o LE32(2),
           \* a pair whose bytes hold a pair
           LE32(8) \o LE32(8) \o LE32(2) \o LE32(3),
           << 9, 9 >> \o LE32(10) \o LE32(9) \o LE32(1) \o LE32(4) \o << 7 >> }

\* roots too short for what is read from them, and strings
ShortRoots ==
  UNION { [1 .. n -> {0, 1, 7}] : n \in 0 .. 3 }
    \cup { << 1, 0, 0, 0, 5 >>, << 1, 0, 0, 0, 5, 0 >>, << 1, 0, 0, 0, 5, 0, 0, 0 >>,
           << 2, 0, 0, 0, 5, 0, 6 >>, << 2, 0, 0, 0, 5, 0, 6, 0, 0, 0 >>,
           << 0, 0, 0, 0, 7 >> }

Roots == LocatorRoots \cup ShortRoots

NoResult == [op |-> "none", arg |-> 0, ok |-> TRUE, value |-> 0]

InitBuffer ==
  /\ InitController
  /\ speed = 1 /\ ~no_idle
  /\ jump = NoJump
  /\ search = NoSearch
  /\ codec = NoCodec
  /\ image = NoImage
  /\ reading = NoReading
  /\ \E root \in Roots :
       buf = [st |-> "open", root |-> root, b |-> RootBuffer(root),
              before |-> RootBuffer(root), out |-> NoResult, n |-> 0]

\* the operation op(arg) gave r on the Buffer; then is the Buffer that is
\* read from now on
Applied(op, arg, r, then) ==
  /\ buf' = [buf EXCEPT !.b = then, !.before = buf.b,
                        !.out = [op |-> op, arg |-> arg, ok |-> r.ok, value |-> r.value],
                        !.n = @ + 1]
  /\ UNCHANGED << config, exit_requested, tasks, _anim_task, says, _say_task, obs, jump,
                  observers, search, codec, image, reading >>

\* b[k:], as the container decoder takes its views
TakeSlice ==
  /\ buf.n < MaxOps
  /\ \E k \in 1 .. 2 :
       Applied("slice", k, [ok |-> TRUE, value |-> Slice(buf.b, k)], Slice(buf.b, k))

\* b.locator(sized); the reads go on in the Buffer it returns
Locator ==
  /\ buf.n < MaxOps
  /\ \E sized \in BOOLEAN :
       LET r == locator(buf.root, buf.b, sized)
       IN Applied("locator", IF sized THEN 1 ELSE 0, r, IF r.ok THEN r.value ELSE r.b)

Read ==
  /\ buf.n < MaxOps
  /\ LET r == read(buf.root, buf.b) IN Applied("read", 1, r, r.b)

ReadUshort ==
  /\ buf.n < MaxOps
  /\ LET r == read_ushort(buf.root, buf.b) IN Applied("read_ushort", 2, r, r.b)

ReadUlong ==
  /\ buf.n < MaxOps
  /\ LET r == read_ulong(buf.root, buf.b) IN Applied("read_ulong", 4, r, r.b)

ReadBytes ==
  /\ buf.n < MaxOps
  /\ \E length \in {0, 1, 3} :
       LET r == read_bytes(buf.root, buf.b, length) IN Applied("read_bytes", length, r, r.b)

ReadString ==
  /\ buf.n < MaxOps
  /\ LET r == read_string(buf.root, buf.b) IN Applied("read_string", 0, r, r.b)

Skip ==
  /\ buf.n < MaxOps
  /\ Applied("skip", 1, [ok |-> TRUE, value |-> 0], skip(buf.b, 1))

NextBuffer ==
  \/ TakeSlice
  \/ Locator
  \/ Read
  \/ ReadUshort
  \/ ReadUlong
  \/ ReadBytes
  \/ ReadString
  \/ Skip

\* a reader of a Buffer, operation after operation
SpecBuffer == InitBuffer /\ [][NextBuffer]_vars

\* the task t has a step to take (a sleeping task's timer will fire)
Runnable(t) == t \in 1 .. Len(tasks) /\ tasks[t].st # "done"

\* The event loop runs every task that is ready: weak fairness of
\* AdvanceTask(t), written out.  ENABLED AdvanceTask(t) is Runnable(t) for a
\* task whose steps create no task beyond MaxTasks, and the steps that set
\* obs.task to t are the steps of AdvanceTask(t).
SpecPlaybackFair ==
  SpecPlayback /\ \A t \in 1 .. MaxTasks - 1 :
                     []<>(~Runnable(t)) \/ []<><<obs'.task = t>>_vars

(***************************************************************************)
(* Properties.                                                             *)
(***************************************************************************)
Recognised == {StopAnimation, Stop}

\* C1: when a task wakes from the sleep on a frame while exit_requested is
\* true and the frame's exit_index is >= 0, the next frame index is that
\* exit_index, whatever the frame's branches, the supplied jump sequence and
\* the random draw are; no jump value is consumed, and when the index is in
\* range that frame is the one the task goes on with.
C1_ExitOverride ==
  [][\A t \in 1 .. Len(tasks) :
       LET T == tasks[t] IN
       ( /\ obs'.task = t
         /\ T.st = "frame" /\ T.cancel = "none"
         /\ exit_requested
         /\ frame_at(T.anim, T.frame_idx).exit_index >= 0 )
       => LET e == frame_at(T.anim, T.frame_idx).exit_index IN
          /\ obs'.next_idx = e
          /\ e < Len(frames(T.anim)) =>
               /\ tasks'[t].st = "frame"
               /\ tasks'[t].anim = T.anim
               /\ tasks'[t].frame_idx = e
               /\ tasks'[t].jump_sequence = T.jump_sequence
    ]_vars

\* the exit branch of frame 0 of GREET was taken although the supplied jump
\* value 35 selects the branch to frame 0
C1_Witness ==
  \E t \in 1 .. Len(tasks) :
    /\ obs.task = t /\ obs.by = "exit" /\ obs.next_idx = 2
    /\ tasks[t].st = "frame" /\ tasks[t].anim = "GREET" /\ tasks[t].frame_idx = 2
    /\ tasks[t].jump_sequence = << 35, 75 >>

\* the sum of the probabilities of the first i branches
RECURSIVE Cumulative(_, _)
Cumulative(branch_infos, i) ==
  IF i = 0 THEN 0 ELSE Cumulative(branch_infos, i - 1) + branch_infos[i].prob_percent

\* C2: pick_jump_destination(v) returns the target of the first branch whose
\* cumulative probability exceeds v and None when there is none; so for v in
\* 0 .. 99 no branch preceded by a cumulative sum of 100 or more is selected,
\* and the branches (3, 30), (7, 40) give 3, 7 and None for 10, 35 and 75.
C2_FirstCumulativeBranch ==
  jump.done =>
    LET bs == jump.branch_infos
        v  == jump.rand_value
        qualifying == { i \in 1 .. Len(bs) : Cumulative(bs, i) > v }
        first == CHOOSE i \in qualifying : \A j \in qualifying : i <= j
    IN /\ jump.result = IF qualifying = {} THEN None ELSE bs[first].jump_target_idx
       /\ (v < RAND_RANGE /\ jump.result # None) =>
            \E i \in 1 .. Len(bs) : /\ bs[i].jump_target_idx = jump.result
                                    /\ Cumulative(bs, i - 1) < 100
       /\ bs = << BranchInfo(3, 30), BranchInfo(7, 40) >> =>
            /\ v = 10 => jump.result = 3
            /\ v = 35 => jump.result = 7
            /\ v = 75 => jump.result = None

\* the draw 35 on the branches (3, 30), (7, 40) picked 7
C2_Witness ==
  /\ jump.done
  /\ jump.branch_infos = << BranchInfo(3, 30), BranchInfo(7, 40) >>
  /\ jump.rand_value = 35
  /\ jump.result = 7

\* C3: play_animation with default options requests the cancellation of the
\* current task with reason StopAnimation before it creates the new task (the
\* new task is not cancelled), returns while the old task is still unwinding,
\* and leaves as current the task it created (or the finished placeholder
\* when the animation is not found): the last request wins.
C3_LastRequestWins ==
  [][(obs'.play_animation /\ obs'.task = 0) =>
       LET old == _anim_task.task
           new == _anim_task'.task
       IN /\ (old # 0 /\ tasks[old].st # "done") =>
               /\ tasks'[old].st # "done"
               /\ tasks'[old].cancel # "none"
               /\ (tasks[old].cancel = "none" \/ ~tasks[old].sticky) =>
                     tasks'[old].cancel = StopAnimation
          /\ new \in {0, Len(tasks) + 1}
          /\ new # 0 => /\ Len(tasks') = Len(tasks) + 1
                        /\ tasks'[new].st = "created"
                        /\ tasks'[new].cancel = "none"
          /\ new = 0 => Len(tasks') = Len(tasks)
    ]_vars

\* a second request has returned: the first task is still unwinding from
\* StopAnimation and the second task is current
C3_Witness ==
  /\ Len(tasks) = 2
  /\ obs.task = 0
  /\ tasks[1].st = "unwinding" /\ tasks[1].cancel = StopAnimation
  /\ _anim_task.task = 2 /\ tasks[2].st = "created" /\ tasks[2].cancel = "none"

\* C4: a started task that is not in a reappear animation and to which a
\* cancellation with reason StopAnimation or Stop is delivered, in the start
\* delay or in a frame's sleep, of the requested or of a chained return
\* animation, ends with result false; it plays no frame in that step, and a
\* finished task never plays a frame.
C4_RecognisedCancelGivesFalse ==
  [][\A t \in 1 .. Len(tasks) :
       LET T == tasks[t] IN
       /\ ( /\ T.st \in {"delay", "frame"} /\ T.cancel = "none" /\ T.outer = << >>
            /\ tasks'[t].cancel # "none" )
          => tasks'[t].st = "unwinding" /\ tasks'[t].outer = << >>
       /\ ( /\ obs'.task = t
            /\ T.st = "unwinding" /\ T.cancel \in Recognised /\ T.outer = << >> )
          => /\ tasks'[t].st = "done"
             /\ tasks'[t].result = "false"
             /\ obs'.play_frame = NoCall
       /\ T.st = "done" => (obs'.play_frame = NoCall \/ obs'.play_frame[1] # t)
    ]_vars

\* the handler has just seen Stop and the task ended with result false
C4_Witness ==
  \E t \in 1 .. Len(tasks) :
    /\ obs.task = t /\ obs.handler = Stop
    /\ tasks[t].st = "done" /\ tasks[t].result = "false"

\* C5: a cancellation that reaches the handler of a started task with a reason
\* other than StopAnimation and Stop (no reason included) is raised again: the
\* task ends cancelled, with neither true nor false as its result.
C5_UnrecognisedCancelIsReraised ==
  [][\A t \in 1 .. Len(tasks) :
       LET T == tasks[t] IN
       ( /\ obs'.task = t
         /\ T.st = "unwinding" /\ T.cancel \notin Recognised )
       => /\ tasks'[t].st = "done"
          /\ tasks'[t].result = "cancelled"
    ]_vars

\* the handler has just seen a cancellation without a reason and the task
\* ended cancelled
C5_Witness ==
  \E t \in 1 .. Len(tasks) :
    /\ obs.task = t /\ obs.handler = NoReason
    /\ tasks[t].st = "done" /\ tasks[t].result = "cancelled"

\* C6: whenever a task whose frame loop has started ends, by completing, by a
\* recognised or an unrecognised cancellation or by a fault, exit_requested is
\* false right after that step.
C6_ExitRequestedClearedAtEnd ==
  [][\A t \in 1 .. Len(tasks) :
       ( /\ \/ tasks[t].st \in {"delay", "frame", "unwinding"}
            \/ tasks[t].st = "created" /\ tasks[t].cancel = "none"
         /\ tasks'[t].st = "done" )
       => ~exit_requested'
    ]_vars

\* a task has just ended through the exit branch, which is taken only while
\* exit_requested is true, and exit_requested is false
C6_Witness ==
  \E t \in 1 .. Len(tasks) :
    /\ obs.task = t /\ obs.by = "exit"
    /\ tasks[t].st = "done" /\ tasks[t].result = "true"
    /\ ~exit_requested

\* C7: interrupt() requests the cancellation of the current animation task and
\* of the current dialogue with reason Stop, and when it returns the animation
\* task has finished unwinding.
C7_InterruptWaits ==
  [][Interrupt =>
       LET t == _anim_task.task IN
       /\ (t # 0 /\ tasks[t].st # "done" /\ tasks[t].cancel = "none") =>
             tasks'[t].cancel = Stop
       /\ (_say_task # 0 /\ says[_say_task].st = "pending") =>
             says'[_say_task].st = "cancelled"
       /\ t # 0 => tasks'[t].st = "done"
    ]_vars

\* C8: say() requests the cancellation of the dialogue that was current before
\* it, so that at most one dialogue is pending.
C8_SayCancelsPrevious ==
  [][( /\ Len(says') > Len(says)
       /\ _say_task # 0
       /\ says[_say_task].st = "pending" )
     => says'[_say_task].st = "cancelled"
    ]_vars

\* what a step does to the dialogue future i that was pending before it;
\* cancellable tells whether interrupt() may end it
DialogueStep(i, cancellable) ==
  LET f  == says[i]
      f1 == says'[i]
  IN IF obs'.button # NoCall /\ obs'.button[1] = i
     THEN LET value == f.buttons[obs'.button[2]] IN
          IF value.callable /\ obs'.button[3]
          THEN f1.st = "pending"
          ELSE /\ f1.st = "done"
               /\ f1.result = value
               /\ value.callable => f1.called = "pending"
     ELSE IF cancellable /\ Interrupt /\ i = _say_task
          THEN f1.st = "cancelled"
          ELSE f1.st = "pending"

\* the future say() has just made for a message
DialogueMade(i) ==
  LET f1 == says'[i] IN
  IF f1.buttons # << >>
  THEN f1.st = "pending"
  ELSE f1.st = "done" /\ f1.result = NoValue

\* C9: the handle of say(message) with choices stays unresolved until a choice
\* is activated or interrupt() cancels it while it is current; a choice
\* activated while it is unresolved resolves it to that choice's value, after
\* the value was invoked when it is callable (if that call raises, the handle
\* stays unresolved); for an empty message, a plain string or a Message
\* without choices the handle is resolved with no value from the start; a
\* resolved or cancelled handle does not change.
C9_ChoiceResolves ==
  [][\A i \in 1 .. Len(says') :
       IF i > Len(says) THEN DialogueMade(i)
       ELSE IF says[i].st = "pending" THEN DialogueStep(i, TRUE)
       ELSE says'[i].st = says[i].st /\ says'[i].result = says[i].result
    ]_vars

\* a handle was resolved to a callable choice that was invoked while the
\* handle was still unresolved
C9_Witness ==
  \E i \in 1 .. Len(says) :
    /\ says[i].st = "done"
    /\ says[i].result = [callable |-> TRUE, key |-> "bye"]
    /\ says[i].called = "pending"

\* C9 as stated: nothing but the activation of a choice ends the wait, and
\* every activation resolves the handle to the choice's value.
C9_OnlyChoiceResolves ==
  [][\A i \in 1 .. Len(says') :
       IF i > Len(says) THEN DialogueMade(i)
       ELSE says[i].st = "pending" =>
              IF obs'.button # NoCall /\ obs'.button[1] = i
              THEN /\ says'[i].st = "done"
                   /\ says'[i].result = says[i].buttons[obs'.button[2]]
              ELSE says'[i].st = "pending"
    ]_vars

\* C10: when the next frame index reaches the number of frames, an animation
\* with transition type USE_RETURN_ANIMATION goes on in the same task with its
\* return animation, from frame 0 and without a delay, with the rest of the
\* jump sequence and the same reappear flag; the task has no result yet and
\* what the continuation returns is returned unchanged (no caller is left
\* waiting to go on after it); with another transition type the animation completes (the task ends with
\* result true, or it begins the reappear animation).
C10_ReturnAnimationContinues ==
  [][\A t \in 1 .. Len(tasks) :
       LET T    == tasks[t]
           T1   == tasks'[t]
           anim == Animations[T.anim]
       IN ( /\ obs'.task = t
            /\ T.st = "frame" /\ T.cancel = "none"
            /\ obs'.next_idx >= Len(anim.frames) )
          => IF anim.transition_type = USE_RETURN_ANIMATION
             THEN anim.return_anim_name \in DOMAIN anim_infos =>
                    /\ Len(tasks') = Len(tasks)
                    /\ _anim_task' = _anim_task
                    /\ T1.st = "frame"
                    /\ T1.anim = anim.return_anim_name
                    /\ T1.frame_idx = 0
                    /\ T1.jump_sequence = IF obs'.by = "sequence"
                                          THEN Tail(T.jump_sequence) ELSE T.jump_sequence
                    /\ T1.reappear = T.reappear
                    /\ T1.play_idle_animation_afterwards = T.play_idle_animation_afterwards
                    /\ T1.outer = T.outer
                    /\ T1.result = "none"
             ELSE \/ T1.st = "done" /\ T1.result = "true"
                  \/ T1.st = "delay" /\ T1.outer # << >>
    ]_vars

\* the task asked to play LOOK is on frame 0 of GREET, LOOK's return
\* animation, and still holds the jump value 35 that LOOK did not use
C10_Witness ==
  \E t \in 1 .. Len(tasks) :
    /\ obs.task = t /\ obs.next_idx = 1
    /\ _anim_task.task = t /\ _anim_task.animation = "LOOK"
    /\ tasks[t].st = "frame" /\ tasks[t].anim = "GREET" /\ tasks[t].frame_idx = 0
    /\ tasks[t].jump_sequence = << 35 >>

\* C11: when an animation with transition type USE_RETURN_ANIMATION runs out
\* of frames and its return animation's name is no key of anim_infos, the
\* task ends with an error (its result is neither true nor false) in that
\* step, which plays no frame and schedules no idle animation (no task is
\* created, the current handle is unchanged) and leaves exit_requested false.
C11_MissingReturnAnimationFails ==
  [][\A t \in 1 .. Len(tasks) :
       LET T    == tasks[t]
           anim == Animations[T.anim]
       IN ( /\ obs'.task = t
            /\ T.st = "frame" /\ T.cancel = "none"
            /\ obs'.next_idx >= Len(anim.frames)
            /\ anim.transition_type = USE_RETURN_ANIMATION
            /\ anim.return_anim_name \notin DOMAIN anim_infos )
          => /\ tasks'[t].st = "done"
             /\ tasks'[t].result = "error"
             /\ obs'.play_frame = NoCall
             /\ played' = played
             /\ ~obs'.play_animation
             /\ Len(tasks') = Len(tasks)
             /\ _anim_task' = _anim_task
             /\ ~exit_requested'
    ]_vars

\* the task asked to play LOST, whose return animation NOWHERE is not in the
\* table, has just run past LOST's last frame and ended with an error
C11_Witness ==
  \E t \in 1 .. Len(tasks) :
    /\ obs.task = t /\ obs.next_idx = 1
    /\ _anim_task.task = t /\ _anim_task.animation = "LOST"
    /\ tasks[t].st = "done" /\ tasks[t].result = "error"

\* the task t has come to a frame's sleep by the step just taken
Visits(t) ==
  /\ obs'.task = t
  /\ tasks'[t].st = "frame"

\* C12: a step that brings a task to a frame calls play_frame for that frame,
\* once and before the frame's sleep begins, exactly when
\* duration_centiseconds * speed / 100 > 0 or
\* do_not_skip_zero_duration_frames is set; no other step calls play_frame;
\* and the step that ends the sleep on a frame, played or skipped, decides
\* the next frame index.
C12_PlayFrameUnlessSkipped ==
  [][/\ \A t \in 1 .. Len(tasks') :
         Visits(t) =>
           LET T1    == tasks'[t]
               frame == Animations[T1.anim].frames[T1.frame_idx + 1]
           IN obs'.play_frame =
                IF frame.duration_centiseconds * speed > 0
                     \/ do_not_skip_zero_duration_frames
                THEN << t, T1.anim, T1.frame_idx >> ELSE NoCall
     /\ (\A t \in 1 .. Len(tasks') : ~Visits(t)) => obs'.play_frame = NoCall
     /\ \A t \in 1 .. Len(tasks) :
         (obs'.task = t /\ tasks[t].st = "frame" /\ tasks[t].cancel = "none")
           => obs'.next_idx # None
    ]_vars

\* the sleep on WAVE's zero-duration frame 1, which was skipped, has ended
\* with the decision to go on with frame 2, which is played
C12_Witness ==
  \E t \in 1 .. Len(tasks) :
    /\ ~do_not_skip_zero_duration_frames /\ speed = 1
    /\ obs.task = t /\ obs.next_idx = 2
    /\ tasks[t].st = "frame" /\ tasks[t].anim = "WAVE" /\ tasks[t].frame_idx = 2
    /\ tasks[t].starting_frame = 0
    /\ obs.play_frame = << t, "WAVE", 2 >>

\* an animation none of whose frames has a branch and which has no return
\* animation
Straight(a) ==
  /\ a \in DOMAIN Animations
  /\ Animations[a].transition_type # USE_RETURN_ANIMATION
  /\ \A i \in 1 .. Len(Animations[a].frames) :
       Animations[a].frames[i].branch_infos = << >>

\* the steps of a task that plays a straight animation and is neither
\* cancelled nor asked to exit: the first frame it comes to is
\* starting_frame, and from the frame with index i it goes to the frame
\* i + 1, or, after the last frame, ends with result true (after the
\* reappearance it may owe)
StraightSteps ==
  \A t \in 1 .. Len(tasks) :
    LET T  == tasks[t]
        T1 == tasks'[t]
    IN ( /\ obs'.task = t
         /\ T.st \in {"created", "delay", "frame"}
         /\ T.cancel = "none" /\ ~exit_requested
         /\ Straight(T.anim) )
       => /\ (T.st # "frame" /\ T1.st = "frame")
               => T1.anim = T.anim /\ T1.frame_idx = T.starting_frame
          /\ T.st = "frame" =>
               /\ obs'.next_idx = T.frame_idx + 1
               /\ IF T.frame_idx + 1 < Len(Animations[T.anim].frames)
                  THEN /\ T1.st = "frame" /\ T1.anim = T.anim
                       /\ T1.frame_idx = T.frame_idx + 1
                  ELSE \/ T1.st = "done" /\ T1.result = "true"
                       \/ T.reappear /\ T1.st = "delay" /\ T1.outer # << >>

\* a task about to play a straight animation from a frame it has
Starts(t) ==
  /\ t \in 1 .. Len(tasks)
  /\ tasks[t].st \in {"created", "delay", "frame"}
  /\ tasks[t].outer = << >>
  /\ Straight(tasks[t].anim)
  /\ tasks[t].starting_frame < Len(Animations[tasks[t].anim].frames)

\* C13: a task that plays an animation whose frames have no branches and
\* whose transition type is not USE_RETURN_ANIMATION, from a valid
\* starting_frame, visits that frame and then each following frame in order,
\* once each, and then ends with result true, unless an exit is requested or
\* the task is cancelled.
C13_StraightAnimationCompletes ==
  /\ [][StraightSteps]_vars
  /\ \A t \in 1 .. MaxTasks - 1 :
       Starts(t) ~> ( /\ t \in 1 .. Len(tasks)
                      /\ \/ tasks[t].st = "done" /\ tasks[t].result = "true"
                         \/ tasks[t].cancel # "none"
                         \/ exit_requested )

\* the playback of WAVE from frame 0 has just left frame 2, its last one,
\* and ended with result true
C13_Witness ==
  \E t \in 1 .. Len(tasks) :
    /\ obs.task = t /\ obs.next_idx = 3
    /\ _anim_task.task = t /\ _anim_task.animation = "WAVE"
    /\ tasks[t].st = "done" /\ tasks[t].result = "true"

\* the frame index a decision with the value v leads to from frame idx
Decided(frame, idx, v) ==
  IF pick_jump_destination(frame, v) = None THEN idx + 1
  ELSE pick_jump_destination(frame, v)

\* C14: the elements of the supplied jump_sequence are used up in order, one
\* by each branch decision of the task, through the requested animation and
\* the return animations chained to it; once none is left a decision uses a
\* value of 0 .. 99; a frame decided by the exit override uses up no element;
\* and no other step of the task touches the sequence.
C14_JumpSequenceInOrder ==
  [][\A t \in 1 .. Len(tasks) :
       LET T     == tasks[t]
           T1    == tasks'[t]
           frame == Animations[T.anim].frames[T.frame_idx + 1]
       IN (obs'.task = t /\ T.st \in {"created", "delay", "frame"} /\ T.cancel = "none")
          => IF T.st # "frame"
             THEN T1.st # "done" => T1.jump_sequence = T.jump_sequence
             ELSE IF exit_requested /\ frame.exit_index >= 0
             THEN /\ obs'.by = "exit"
                  /\ obs'.next_idx = frame.exit_index
                  /\ T1.st # "done" => T1.jump_sequence = T.jump_sequence
             ELSE IF T.jump_sequence # << >>
             THEN /\ obs'.by = "sequence"
                  /\ obs'.next_idx = Decided(frame, T.frame_idx, Head(T.jump_sequence))
                  /\ T1.st # "done" => T1.jump_sequence = Tail(T.jump_sequence)
             ELSE /\ obs'.by = "rand"
                  /\ \E v \in 0 .. RAND_RANGE - 1 :
                       obs'.next_idx = Decided(frame, T.frame_idx, v)
                  /\ T1.st # "done" => T1.jump_sequence = << >>
    ]_vars

\* LOOK was requested with a jump_sequence of one element, which its only
\* decision used; GREET, chained to it, has just made the second decision
\* of the playback with a drawn value
C14_Witness ==
  \E t \in 1 .. Len(tasks) :
    /\ obs.task = t /\ obs.by = "rand" /\ obs.next_idx = 0
    /\ _anim_task.task = t /\ _anim_task.animation = "LOOK"
    /\ tasks[t].st = "frame" /\ tasks[t].anim = "GREET"

\* the step just taken by task t has ended the frame loop of its animation
\* by running past the last frame, with no return animation to chain to
CompletesNaturally(t) ==
  /\ obs'.task = t
  /\ tasks[t].st = "frame" /\ tasks[t].cancel = "none"
  /\ obs'.next_idx >= Len(Animations[tasks[t].anim].frames)
  /\ Animations[tasks[t].anim].transition_type # USE_RETURN_ANIMATION

\* by the step just taken, task t has begun another animation inside the
\* __play that goes on afterwards
Reappears(t) == Len(tasks'[t].outer) = Len(tasks[t].outer) + 1

\* the condition of line 247 for the animation task t has completed
Disappeared(t) ==
  /\ tasks[t].reappear
  /\ Animations[tasks[t].anim].name \in {"HIDE", "GOODBYE"}
  /\ "SHOWING" \in DOMAIN state_infos

\* the names of the SHOWING state
Showing == state_infos["SHOWING"]

\* C15 (as amended): a task begins an animation inside the __play that goes
\* on afterwards only when an animation completes naturally with reappear
\* set, a name of HIDE or GOODBYE and a SHOWING state in the state table; the
\* animation is then one of the SHOWING state's names that is a key of
\* anim_infos, starts from frame 0 after 0.5 s, with reappear and the idle
\* continuation off, in the same task, which has not finished and has
\* created no task; and when every name of a non-empty SHOWING state is a
\* key of anim_infos, such an animation is begun.
C15_ReappearsWhenFound ==
  [][\A t \in 1 .. Len(tasks) :
       /\ (obs'.task = t /\ Reappears(t)) =>
            /\ CompletesNaturally(t) /\ Disappeared(t)
            /\ \E i \in 1 .. Len(Showing) :
                 /\ Showing[i] \in DOMAIN anim_infos
                 /\ tasks'[t].anim = Showing[i]
            /\ tasks'[t].st = "delay"
            /\ tasks'[t].start_delay = REAPPEAR_DELAY
            /\ tasks'[t].starting_frame = 0
            /\ ~tasks'[t].reappear
            /\ ~tasks'[t].play_idle_animation_afterwards
            /\ obs'.play_frame = NoCall /\ ~obs'.play_animation
            /\ Len(tasks') = Len(tasks)
       /\ ( /\ CompletesNaturally(t) /\ Disappeared(t)
            /\ Showing # << >>
            /\ \A i \in 1 .. Len(Showing) : Showing[i] \in DOMAIN anim_infos )
          => Reappears(t)
    ]_vars

\* C15 as stated: whenever an animation named HIDE or GOODBYE completes
\* naturally with reappear set and the state table has a SHOWING state, an
\* animation of that state is begun in the same task.
C15_ReappearsWheneverShowing ==
  [][\A t \in 1 .. Len(tasks) :
       (CompletesNaturally(t) /\ Disappeared(t)) => Reappears(t)
    ]_vars

\* GOODBYE, requested with reappear set, has completed and the task waits
\* out the 0.5 s before WAVE, the second name of the SHOWING state
C15_Witness ==
  \E t \in 1 .. Len(tasks) :
    /\ obs.task = t /\ obs.next_idx = 1
    /\ _anim_task.task = t /\ _anim_task.animation = "GOODBYE"
    /\ tasks[t].st = "delay" /\ tasks[t].anim = "WAVE"
    /\ tasks[t].start_delay = REAPPEAR_DELAY
    /\ tasks[t].outer # << >>

\* the keys of anim_infos whose animation is eligible as idle animation
EligibleIdle ==
  { n \in DOMAIN anim_infos :
      idle_all_anims \/ startswith(lower(Animations[n].name), "idle") }

\* C16: a task's step schedules an idle animation only if no_idle is false
\* and an eligible animation exists; the animation is a key of anim_infos
\* and, unless idle_all_anims is set, its name starts with "idle" whatever
\* the case of its letters; it gets a task of its own with a start delay of
\* 1 s up to, not including, 4 s and a handle that is not awaitable, and no
\* task is cancelled for it: the scheduling task ends with result true in
\* that step and every other task is left as it is.
C16_IdleContinuation ==
  [][\A t \in 1 .. Len(tasks) :
       obs'.task = t =>
         IF obs'.play_animation
         THEN LET n   == Len(tasks')
                  new == tasks'[n]
              IN /\ ~no_idle /\ EligibleIdle # {}
                 /\ n = Len(tasks) + 1
                 /\ new.st = "created" /\ new.cancel = "none"
                 /\ new.anim \in EligibleIdle
                 /\ new.start_delay \in IDLE_DELAY_MIN .. IDLE_DELAY_MAX - 1
                 /\ new.starting_frame = 0 /\ new.jump_sequence = << >>
                 /\ _anim_task' = AnimationTask(n, new.anim, TRUE)
                 /\ tasks'[t].st = "done" /\ tasks'[t].result = "true"
                 /\ \A u \in 1 .. Len(tasks) : u # t => tasks'[u] = tasks[u]
         ELSE /\ Len(tasks') = Len(tasks)
              /\ _anim_task' = _anim_task
    ]_vars

\* the requested animation has completed and Idle1 is scheduled in a task
\* of its own, 3.95 s from now, while the table also holds GREET and others
C16_Witness ==
  \E t \in 1 .. Len(tasks) :
    /\ ~idle_all_anims /\ ~no_idle
    /\ obs.task = t /\ obs.play_animation
    /\ tasks[t].st = "done" /\ tasks[t].result = "true"
    /\ _anim_task = AnimationTask(t + 1, "Idle1", TRUE)
    /\ tasks[t + 1].st = "created"
    /\ tasks[t + 1].start_delay = IDLE_DELAY_MAX - SLICE

\* C17: a task waits out its start delay in sleeps of at most 50 ms each;
\* a recognised cancellation requested while a started task is in such a
\* sleep, before its first frame, finds play_frame not yet called for the
\* task and leaves it unwinding; the next step of an unwinding task ends
\* it without sleeping again and without a play_frame call; nothing is
\* played for a task that is unwinding or done.
C17_CancelDuringStartDelay ==
  [][\A t \in 1 .. Len(tasks) :
       LET T  == tasks[t]
           T1 == tasks'[t]
       IN /\ (obs'.task = t /\ T.st = "delay")
               => /\ obs'.slept <= SLICE
                  /\ obs'.slept = T.start_delay - T1.start_delay
                  /\ T1.st = "delay" => T1.start_delay > 0
          /\ ( /\ T.st = "delay" /\ T.outer = << >> /\ T.cancel = "none"
               /\ T1.cancel \in Recognised )
             => t \notin played /\ T1.st = "unwinding"
          /\ T.st = "unwinding"
               => /\ (t \in played') = (t \in played)
                  /\ obs'.task = t
                       => /\ T1.st = "done"
                          /\ obs'.slept = 0
                          /\ obs'.play_frame = NoCall
          /\ T.st = "done" => T1 = T /\ (t \in played') = (t \in played)
    ]_vars

\* GREET was requested with a start delay of 70 ms at speed 1, where its
\* every frame is played; the task was stopped with a recognised reason
\* before any frame was played and has ended with result false
C17_Witness ==
  \E t \in 1 .. Len(tasks) :
    /\ speed = 1
    /\ obs.task = t /\ obs.handler \in Recognised
    /\ _anim_task = AnimationTask(t, "GREET", FALSE)
    /\ tasks[t].st = "done" /\ tasks[t].result = "false"
    /\ t \notin played

\* C18: awaiting a handle with no_wait set returns false at once, whether
\* its task is done or not; awaiting a handle with no_wait unset returns
\* only when its task is done (at once, with false, when the handle holds
\* the finished future of an unresolved reference), and with the task's
\* outcome; awaiting changes neither a task nor the current handle nor
\* exit_requested.
C18_AwaitHandle ==
  [][/\ awaiter' # awaiter
          => UNCHANGED << tasks, _anim_task, exit_requested, played >>
     /\ (awaiter.st = "idle" /\ awaiter'.st # "idle")
          => /\ awaiter'.handle = _anim_task
             /\ IF _anim_task.no_wait
                THEN awaiter'.st = "returned" /\ awaiter'.result = "false"
                ELSE awaiter'.st = "returned"
                       <=> \/ _anim_task.task = 0
                           \/ tasks[_anim_task.task].st = "done"
     /\ (awaiter'.st = "returned" /\ ~awaiter'.handle.no_wait)
          => LET k == awaiter'.handle.task
             IN IF k = 0 THEN awaiter'.result = "false"
                ELSE /\ tasks'[k].st = "done"
                     /\ awaiter'.result = tasks'[k].result
    ]_vars

\* the await of a handle that is not awaitable has returned false, and the
\* playback it stands for is going on: a frame was played since and the
\* task sleeps on a frame
C18_Witness ==
  /\ awaiter.st = "returned" /\ awaiter.result = "false"
  /\ awaiter.handle.no_wait /\ awaiter.handle.task # 0
  /\ tasks[awaiter.handle.task].st = "frame"
  /\ awaiter.handle.task \in played

\* the names listed for the state a '#'-prefixed reference names
Listed(val) ==
  IF DropFirst(val) \in DOMAIN state_infos THEN state_infos[DropFirst(val)] ELSE << >>

\* what search_animation is to give for the reference ref, given what it gave
Resolved(ref, found) ==
  IF ref.kind = "None" THEN found = NoAnim
  ELSE IF ref.kind = "AnimInfo" THEN found = ref.val
  ELSE IF ~startswith(ref.val, "#")
  THEN found = IF ref.val \in DOMAIN anim_infos THEN ref.val ELSE NoAnim
  ELSE LET names == Listed(ref.val)
           known == { i \in 1 .. Len(names) : names[i] \in DOMAIN anim_infos }
       IN /\ found # NoAnim => \E i \in known : found = names[i]
          /\ known = {} => found = NoAnim
          /\ (names # << >> /\ known = 1 .. Len(names)) => found # NoAnim

\* C19: search_animation gives an AnimInfo back as it is, the table entry
\* for a name that is a key of anim_infos, and for a '#'-prefixed state
\* name the table entry of one of the names listed for the state; for
\* None, a name that is no key, a state that is unknown or lists no name,
\* and a state whose chosen name is no key, it gives nothing, and
\* play_animation then creates no task and installs a handle on a finished
\* future whose await returns false at once.
C19_SearchAnimation ==
  /\ search.st \in {"searched", "played"} => Resolved(search.ref, search.found)
  /\ search.st = "played" =>
       IF search.found = NoAnim
       THEN /\ tasks = << >>
            /\ _anim_task = AnimationTask(0, NoAnim, search.not_awaitable)
            /\ awaiter.st \in {"idle", "returned"}
            /\ awaiter.st = "returned" => awaiter.result = "false"
       ELSE /\ Len(tasks) = 1
            /\ tasks[1].st = "created" /\ tasks[1].anim = search.found
            /\ _anim_task = AnimationTask(1, search.found, search.not_awaitable)

\* '#SHOWING' was given while the state lists SHOW and WAVE and SHOW, the
\* name chosen, is no key of anim_infos: nothing was found, play_animation
\* created no task, and the await of its handle has returned false
C19_Witness ==
  /\ search.st = "played" /\ search.ref = Ref("str", "#SHOWING")
  /\ search.found = NoAnim
  /\ "SHOWING" \in DOMAIN state_infos
  /\ state_infos["SHOWING"] = << "SHOW", "WAVE" >>
  /\ "WAVE" \in DOMAIN anim_infos
  /\ tasks = << >>
  /\ awaiter.st = "returned" /\ awaiter.result = "false"

\* C20: what decompress gives for a sequence the reference compressor wrote
\* for x, with a buffer_size of at least the length of x, is x.
C20_RoundTrip ==
  codec.st = "decompressed" =>
    /\ codec.out.ok
    /\ codec.out.bytes = codec.x

\* a sequence of five bytes was written as a header, two literals, a
\* back-reference and the end of the stream (8 bytes in all) and was
\* decompressed to what it was
C20_Witness ==
  /\ codec.st = "decompressed"
  /\ codec.x = << 1, 170, 1, 170, 1 >>
  /\ Len(codec.data) = 8
  /\ codec.out.bytes = << 1, 170, 1, 170, 1 >>

\* the number of 9-bit tokens after the header when the data is made of
\* such tokens only
TokenCount(data) == (8 * Len(data) - 8) \div 9

\* after its header the data is literal tokens only and ends with one
LiteralStream(data) ==
  /\ Len(data) >= 1
  /\ (8 * Len(data) - 8) % 9 = 0
  /\ \A j \in 1 .. TokenCount(data) : DataBit(data, 8 + 9 * (j - 1)) = 0

\* the byte the 8 bits after the flag of token j (from 1) stand for
LiteralByte(data, j) ==
  LET s == 8 + 9 * (j - 1) + 1
  IN DataBit(data, s) + 2 * DataBit(data, s + 1) + 4 * DataBit(data, s + 2)
       + 8 * DataBit(data, s + 3) + 16 * DataBit(data, s + 4) + 32 * DataBit(data, s + 5)
       + 64 * DataBit(data, s + 6) + 128 * DataBit(data, s + 7)

\* the bits decompress reads from the data: every byte from its least
\* significant bit
ReversedStream(data) == StreamOf([i \in 1 .. Len(data) |-> _reverse_bits(data[i])])

\* C21: a stream that after its header byte is literal tokens only and ends
\* at a token boundary decodes to its literal bytes in stream order; each
\* output byte is the 8 bits after the flag, the first the least significant
C21_LiteralsDecodeInOrder ==
  (codec.st = "decompressed" /\ LiteralStream(codec.data)
     /\ TokenCount(codec.data) <= codec.buffer_size) =>
    /\ codec.out.ok
    /\ codec.out.bytes = [j \in 1 .. TokenCount(codec.data) |-> LiteralByte(codec.data, j)]
    /\ codec.out.bytes = [j \in 1 .. Len(codec.toks) |-> codec.toks[j].byte]

C21_Witness ==
  /\ codec.st = "decompressed"
  /\ LiteralStream(codec.data)
  /\ Len(codec.data) = 10
  /\ codec.out.bytes = << 1, 170, 0, 0, 170, 1, 1, 170 >>

\* the stream is literals, then one back-reference with a 6-bit offset
\* field that reaches no further back than the first byte, then the end
OneCopy(toks) ==
  /\ Len(toks) >= 3
  /\ \A j \in 1 .. Len(toks) - 2 : toks[j].kind = "literal"
  /\ toks[Len(toks) - 1].kind = "raw"
  /\ toks[Len(toks) - 1].k = 0
  /\ toks[Len(toks) - 1].m < SECOND_RUN_LIMIT
  /\ toks[Len(toks) - 1].field + 1 <= Len(toks) - 2
  /\ toks[Len(toks)].kind = "end"

\* C22: a back-reference of length L and offset d at output position p
\* leaves out[p + i] = out[p + i - d] for 0 <= i < L, the bytes it wrote
\* itself included; offset 1 and length 5 after the byte 0xAA gives five 0xAA
C22_CopyByteByByte ==
  (codec.st = "decompressed" /\ "toks" \in DOMAIN codec /\ OneCopy(codec.toks)) =>
    LET p == Len(codec.toks) - 2
        copy == codec.toks[p + 1]
        d == copy.field + 1
        L == CopyLength(copy.m, copy.add2)
    IN /\ codec.out.ok
       /\ Len(codec.out.bytes) = p + L
       /\ \A j \in 1 .. p : codec.out.bytes[j] = codec.toks[j].byte
       /\ \A i \in 0 .. L - 1 : codec.out.bytes[p + i + 1] = codec.out.bytes[p + i - d + 1]
       /\ (p = 1 /\ codec.toks[1].byte = 170 /\ d = 1 /\ L = 5)
            => codec.out.bytes = << 170, 170, 170, 170, 170, 170 >>

C22_Witness ==
  /\ codec.st = "decompressed"
  /\ "toks" \in DOMAIN codec
  /\ codec.toks = << Literal(170), RawCopy(0, 0, 2, 0), EndOfStream >>
  /\ codec.out.bytes = << 170, 170, 170, 170, 170, 170 >>

\* the stream is literals and then the end-of-stream token
EndsAfterLiterals(toks) ==
  /\ Len(toks) >= 1
  /\ \A j \in 1 .. Len(toks) - 1 : toks[j].kind = "literal"
  /\ toks[Len(toks)].kind = "end"

\* C23: at the token of three leading 1-bits and the offset field 0xFFFFF
\* decoding stops: whatever bits follow, and when none follow, the output
\* is the bytes decoded before the token
C23_SentinelStops ==
  (codec.st = "decompressed" /\ EndsAfterLiterals(codec.toks)) =>
    /\ codec.out.ok
    /\ codec.out.bytes = [j \in 1 .. Len(codec.toks) - 1 |-> codec.toks[j].byte]

\* bits that would not decode follow the token
C23_Witness ==
  /\ codec.st = "decompressed"
  /\ codec.toks = << Literal(170), Literal(1), EndOfStream >>
  /\ codec.tail = RawTokenBits(RawCopy(0, 0, SECOND_RUN_LIMIT, 0))
  /\ codec.out.ok
  /\ codec.out.bytes = << 170, 1 >>

\* the data ends with the last bit of the token
C23_WitnessNoTail ==
  /\ codec.st = "decompressed"
  /\ codec.toks = << EndOfStream >>
  /\ codec.tail = << >>
  /\ Len(codec.data) = 4
  /\ codec.out.ok

\* the stream is one back-reference token that is not the end of the stream
LoneCopy(toks) ==
  /\ Len(toks) = 1
  /\ toks[1].kind = "raw"
  /\ toks[1].m < 12
  /\ ~(toks[1].k = 3 /\ toks[1].field = 1048575)

\* the stream is the byte 170, 0 bytes, a back-reference of the class k
\* of 1 or more, and the end of the stream
FarCopy(toks) ==
  /\ Len(toks) >= 5
  /\ toks[1] = Literal(170)
  /\ toks[Len(toks) - 1].kind = "raw"
  /\ toks[Len(toks) - 1].k >= 1
  /\ toks[Len(toks) - 1].m < 12
  /\ toks[Len(toks)].kind = "end"

RECURSIVE Written(_)
\* the number of bytes the literals and 6-bit back-references toks stand for
Written(toks) ==
  IF toks = << >> THEN 0
  ELSE (IF Head(toks).kind = "literal" THEN 1
        ELSE 2 + (2 ^ Head(toks).m - 1) + Head(toks).add2) + Written(Tail(toks))

\* C24: a back-reference token with k leading 1-bits (0..3) and a second
\* run of m 1-bits (0..11) has the distance offset_field + {1, 65, 577,
\* 4673}[k], the field being {6, 9, 12, 20}[k] bits wide, and the length
\* (3 if k = 3, else 2) + (2^m - 1) + the value of the next m bits; the
\* copy of a token with a 9-bit field reads that far back and writes that
\* many bytes
C24_DistanceAndLength ==
  codec.st = "decompressed" =>
    /\ LoneCopy(codec.toks) =>
         LET t == codec.toks[1]
             k == t.k
             width == << 6, 9, 12, 20 >>[k + 1]
             tok == CopyToken(ReversedStream(codec.data), 9)
         IN /\ tok.kind = "copy"
            /\ tok.offset = t.field + << 1, 65, 577, 4673 >>[k + 1]
            /\ tok.bytes_to_be_decoded = (IF k = 3 THEN 3 ELSE 2) + (2 ^ t.m - 1) + t.add2
            /\ tok.pos = 9 + k + (IF k < 3 THEN 1 ELSE 0) + width + t.m + 1 + t.m
    /\ FarCopy(codec.toks) =>
         LET t == codec.toks[Len(codec.toks) - 1]
             p == Written(SubSeq(codec.toks, 1, Len(codec.toks) - 2))
             d == t.field + << 1, 65, 577, 4673 >>[t.k + 1]
             L == (IF t.k = 3 THEN 3 ELSE 2) + (2 ^ t.m - 1) + t.add2
         IN /\ codec.out.ok
            /\ Len(codec.out.bytes) = p + L
            /\ \A i \in 0 .. L - 1 :
                 codec.out.bytes[p + i + 1] = IF p - d + i = 0 THEN 170 ELSE 0

\* the widest field with its greatest value but one and the longest
\* second run, decoded
C24_Witness ==
  /\ codec.st = "decompressed"
  /\ codec.toks = << RawCopy(3, 1048574, 11, 2047) >>
  /\ CopyToken(ReversedStream(codec.data), 9).offset = 1053247
  /\ CopyToken(ReversedStream(codec.data), 9).bytes_to_be_decoded = 4097

\* a copy from 4673 bytes back: the first byte decoded and two after it
C24_WitnessFar ==
  /\ codec.st = "decompressed"
  /\ FarCopy(codec.toks)
  /\ codec.toks[Len(codec.toks) - 1] = RawCopy(3, 0, 0, 0)
  /\ Len(codec.out.bytes) = 4676
  /\ SubSeq(codec.out.bytes, 4673, 4676) = << 0, 170, 0, 0 >>

\* the stream is literals and then a back-reference whose second run of
\* 1-bits is 12 long
OverlongRun(toks) ==
  /\ Len(toks) >= 2
  /\ \A j \in 1 .. Len(toks) - 2 : toks[j].kind = "literal"
  /\ toks[Len(toks) - 1].kind = "raw"
  /\ toks[Len(toks) - 1].m = 12

\* C25: a back-reference whose second unary run reaches 12 ones makes
\* decompress fail: it returns no output, and no offset and no length come
\* of the token for a copy
C25_OverlongRunFails ==
  (codec.st = "decompressed" /\ OverlongRun(codec.toks)) =>
    /\ ~codec.out.ok
    /\ codec.out.bytes = << >>
    /\ CopyToken(ReversedStream(codec.data), 8 + 9 * (Len(codec.toks) - 2) + 1).kind = "error"

\* the buffer has room for the bytes of the copy and the byte before it
C25_Witness ==
  /\ codec.st = "decompressed"
  /\ codec.toks = << Literal(170), RawCopy(0, 0, 12, 0), EndOfStream >>
  /\ codec.buffer_size = 4099
  /\ ~codec.out.ok

\* C26: decompress_paletted_image returns the raster of h rows and w
\* columns whose pixel (r, c) is the byte (h - 1 - r) * stride + c of the
\* payload, the stride being the width rounded up to a multiple of 4,
\* for every width
C26_RasterByStride ==
  image.st = "done" =>
    LET w == image.size[1] + image.extra_width
        h == image.size[2]
    IN /\ image.out.ok
       /\ Len(image.out.rows) = h
       /\ \A r \in 0 .. h - 1 :
            /\ Len(image.out.rows[r + 1]) = w
            /\ \A c \in 0 .. w - 1 :
                 image.out.rows[r + 1][c + 1] = image.payload[(h - 1 - r) * Stride(w) + c + 1]

\* the widths for which the raster is the one of the format: a multiple
\* of 4 below 253, or any width below 253 when the image is one row high
C26_RasterOfAlignedWidth ==
  image.st = "done" =>
    LET w == image.size[1] + image.extra_width
        h == image.size[2]
    IN ((w % 4 = 0 \/ h = 1) /\ (w < 253 \/ ~image.compressed)) =>
         /\ image.out.ok
         /\ image.out.rows =
              [r \in 1 .. h |-> [c \in 1 .. w |-> image.payload[(h - r) * Stride(w) + c]]]

\* C27: once the cancellation is signalled before the image i is read,
\* the next step of the read raises ImageDecompressionInterrupt out of
\* make_sure_image_cache_exists: no image of index i or more is decoded, no
\* list is returned and no cache is written
C27_CancelInterrupts ==
  [][reading.st = "decoding" /\ reading.cancelled =>
       /\ reading'.st = "raised"
       /\ reading'.exception = "ImageDecompressionInterrupt"
       /\ reading'.decoded = reading.decoded
       /\ \A j \in 1 .. Len(reading'.decoded) :
            reading'.decoded[j] < reading.cancelled_before
       /\ ~reading'.returned
       /\ ~reading'.written
       /\ reading'.cache = reading.cache]_vars

\* cancelled before the second of three images, one of which the third
\* would not decode
C27_Witness ==
  /\ reading.st = "raised"
  /\ reading.cancelled
  /\ reading.cancelled_before = 1
  /\ reading.count = 3
  /\ reading.decoded = << 0 >>
  /\ reading.exception = "ImageDecompressionInterrupt"
  /\ reading.cache = "missing"

\* the bytes left in the view from its cursor on
Remaining(b) == IF b.pos < b.len THEN b.len - b.pos ELSE 0

\* the byte of the view b at position p (from 0), 0 where the view has ended
ViewByte(root, b, p) == IF p < b.len THEN root[b.start + p + 1] ELSE 0

\* the unsigned long that the bytes of the view b from position p on spell
ViewLong(root, b, p) ==
  ViewByte(root, b, p) + 256 * ViewByte(root, b, p + 1)
    + 65536 * ViewByte(root, b, p + 2) + 16777216 * ViewByte(root, b, p + 3)

\* C28: locator(), on the root or a view of it, reads (offset, size) and
\* fails with IndexError when offset + size is more than the length of the
\* root; otherwise it returns the view of the root bytes offset to
\* offset + size, counted from the start of the root and not of the view it
\* was called on; no view reaches outside the root
C28_LocatorOnRoot ==
  buf.st = "open" =>
    /\ buf.b.start + buf.b.len <= Len(buf.root)
    /\ (buf.out.op = "locator" /\ buf.out.arg = 1) =>
         LET offset == ViewLong(buf.root, buf.before, buf.before.pos)
             size   == ViewLong(buf.root, buf.before, buf.before.pos + 4)
         IN IF offset + size > Len(buf.root)
            THEN ~buf.out.ok /\ buf.out.value = "IndexError"
            ELSE /\ buf.out.ok
                 /\ buf.b = buf.out.value
                 /\ buf.b.start = offset
                 /\ buf.b.len = size
                 /\ buf.b.pos = 0
                 /\ Mv(buf.root, buf.b) = [i \in 1 .. size |-> buf.root[offset + i]]

\* a locator called on a view that starts 2 bytes into the root
C28_Witness ==
  /\ buf.st = "open"
  /\ buf.root = << 9, 9 >> \o LE32(10) \o LE32(3) \o << 5, 0, 6 >>
  /\ buf.before = Buffer(2, 11, 2, 0)
  /\ buf.out.op = "locator"
  /\ buf.out.ok
  /\ Mv(buf.root, buf.b) = << 5, 0, 6 >>

\* the pair reaches one byte beyond the root
C28_WitnessBeyond ==
  /\ buf.st = "open"
  /\ buf.root = << 9, 9 >> \o LE32(10) \o LE32(4) \o << 5, 0, 6 >>
  /\ buf.out.op = "locator"
  /\ ~buf.out.ok

\* the bytes the last read needs: 2 or 4 for an integer, N for a block, and
\* for a string its count and its characters
Needed ==
  IF buf.out.op = "read_string"
  THEN IF Remaining(buf.before) < 4 THEN 4
       ELSE 4 + 2 * ViewLong(buf.root, buf.before, buf.before.pos)
  ELSE buf.out.arg

\* C29: reading a 2- or 4-byte integer, a string or a block of N bytes when
\* fewer bytes remain in the view fails with an error; no value is made of
\* fewer bytes, and no read leaves the cursor beyond the end of the view
C29_ShortReadFails ==
  (buf.st = "open" /\ buf.out.op \in {"read_ushort", "read_ulong", "read_bytes", "read_string"}) =>
    /\ Remaining(buf.before) < Needed => ~buf.out.ok
    /\ buf.before.pos <= buf.before.len => buf.b.pos <= buf.b.len

\* the bytes of the count that read_list reads
CountWidth == IF buf.count_type = "byte" THEN 1 ELSE IF buf.count_type = "ushort" THEN 2 ELSE 4

\* the count as the bytes of the root spell it
CountField ==
  IF buf.count_type = "byte" THEN ViewByte(buf.root, buf.before, 0)
  ELSE IF buf.count_type = "ushort"
  THEN ViewByte(buf.root, buf.before, 0) + 256 * ViewByte(buf.root, buf.before, 1)
  ELSE ViewLong(buf.root, buf.before, 0)

\* the count after limit, when one is given
ListLength ==
  IF buf.limit.given /\ buf.limit.value < CountField THEN buf.limit.value ELSE CountField

\* the bytes one call of the reader takes
ElemWidth == IF buf.reader = "read" THEN 1 ELSE 2

\* the bytes after the count
ElemBytes == IF Len(buf.root) > CountWidth THEN Len(buf.root) - CountWidth ELSE 0

\* lambda b: b.read() raises when the bytes after the count are fewer than
\* the length (the other readers never raise)
ReaderRaises(length) == buf.reader = "read" /\ ElemBytes < length

\* the calls of the reader up to and with the one that raises
CallsMade(length) == IF ReaderRaises(length) THEN ElemBytes + 1 ELSE length

\* C30 (as stated): read_list fails before any call of the reader when the
\* count is above 65536; for a count at or below 65536 the reader is called
\* exactly count times, in order, with the count as length when it declares
\* a length parameter
C30_FailsAboveCeiling ==
  (buf.st = "read" /\ (buf.count_type = "byte" => Len(buf.root) >= 1)) =>
    LET length == ListLength
    IN IF length > LENGTH_LIMIT
       THEN ~buf.ok /\ buf.value = "ValueError" /\ buf.calls = << >>
       ELSE /\ Len(buf.calls) = CallsMade(length)
            /\ \A i \in 1 .. CallsMade(length) :
                 buf.calls[i] = [pos |-> CountWidth + ElemWidth * (i - 1),
                                 length |-> IF buf.reader = "sized" THEN << length >> ELSE << >>]
            /\ buf.ok <=> ~ReaderRaises(length)
            /\ buf.ok => Len(buf.value) = length
            /\ ~buf.ok => buf.value = "IndexError"

\* C30 (amended): read_list fails with ValueError before any call of the
\* reader when the count (after limit) is 65536 or more; for a count below
\* 65536 the reader is called count times, in order, one call after the
\* cursor the one before left, with the count as length when it declares a
\* length parameter, and fewer times only when a call raises
C30_FailsFromCeiling ==
  (buf.st = "read" /\ (buf.count_type = "byte" => Len(buf.root) >= 1)) =>
    LET length == ListLength
    IN IF length >= LENGTH_LIMIT
       THEN ~buf.ok /\ buf.value = "ValueError" /\ buf.calls = << >>
       ELSE /\ Len(buf.calls) = CallsMade(length)
            /\ \A i \in 1 .. CallsMade(length) :
                 buf.calls[i] = [pos |-> CountWidth + ElemWidth * (i - 1),
                                 length |-> IF buf.reader = "sized" THEN << length >> ELSE << >>]
            /\ buf.ok <=> ~ReaderRaises(length)
            /\ buf.ok => Len(buf.value) = length
            /\ ~buf.ok => buf.value = "IndexError"

\* a count field of exactly 65536 is refused with no call made
C30_Witness ==
  /\ buf.st = "read"
  /\ buf.count_type = "ulong"
  /\ buf.limit = NoLimit
  /\ CountField = LENGTH_LIMIT
  /\ ~buf.ok
  /\ buf.calls = << >>

\* 65535 calls of a reader with a length parameter
C30_WitnessCalls ==
  /\ buf.st = "read"
  /\ buf.reader = "sized"
  /\ buf.ok
  /\ Len(buf.calls) = LENGTH_LIMIT - 1
  /\ buf.calls[LENGTH_LIMIT - 1].length = << LENGTH_LIMIT - 1 >>

\* the header is whole and its transparency index is a row of its palette
WellFormed(h) == ~h.cut /\ h.transparency_index < h.palette_size

\* C32 (as stated): decoding the character header fails with
\* NotImplementedError for every tray icon byte that is not 0, and goes on
\* to the state table only when the byte is 0
C32_TrayIconRefused ==
  (buf.st = "decoded" /\ WellFormed(buf.header)) =>
    /\ buf.header.tray # 0 => ~buf.ok /\ buf.value = "NotImplementedError"
    /\ buf.ok => buf.header.tray = 0

\* the string of the code units s as read_string gives it
DecodedString(s) == [length |-> Len(s), units |-> s]

\* the state table as the readers give it
DecodedStates(states) ==
  [i \in DOMAIN states |->
     << DecodedString(states[i][1]),
        [j \in DOMAIN states[i][2] |-> DecodedString(states[i][2][j])] >>]

\* what holds: the byte 1 is refused, every other byte goes on
C32_TrayIconOneRefused ==
  (buf.st = "decoded" /\ WellFormed(buf.header)) =>
    /\ buf.header.tray = 1 <=> ~buf.ok
    /\ ~buf.ok => buf.value = "NotImplementedError"
    /\ buf.ok => /\ buf.value.state_infos = DecodedStates(buf.header.states)
                 /\ buf.b.pos = buf.b.len - Len(LocalizedListBytes(buf.header.localized_infos))

\* C31: loading a container whose first four bytes are not C3 AB CD AB fails
\* with ValueError before any locator is resolved and before anything is
\* decoded, and no AcsFile comes of it
C31_WrongMagicFails ==
  (buf.st \notin {"none", "magic"} /\ "file" \in DOMAIN buf /\ buf.file.magic # MAGIC) =>
    /\ buf.st = "failed"
    /\ buf.error = "ValueError"
    /\ buf.events = << >>
    /\ buf.acs = << >>
    /\ reading = NoReading

\* the last byte of the magic number is wrong
C31_Witness ==
  /\ "file" \in DOMAIN buf
  /\ buf.file.magic = << 195, 171, 205, 170 >>
  /\ buf.file.animations # << >>
  /\ buf.st = "failed"

\* a container with the magic number, two animations and two sounds is loaded
C31_WitnessLoaded ==
  /\ "file" \in DOMAIN buf
  /\ buf.st = "loaded"
  /\ Len(buf.acs) = 4
  /\ Len(buf.acs[2]) = 1
  /\ Len(buf.acs[2][1].frames) = 2
  /\ buf.acs[3] = << << 1, 2 >>, << >> >>

\* the frame indexes of the animation anim
FrameIndexes(anim) == 0 .. Len(frames(anim)) - 1

\* the return animation of anim is asked for and is not in anim_infos
ReturnMissing(anim) ==
  /\ Animations[anim].transition_type = USE_RETURN_ANIMATION
  /\ Animations[anim].return_anim_name \notin DOMAIN anim_infos

\* a step of the frame loop of task t: t is resumed with no cancellation
FrameLoopStep(t) ==
  /\ obs'.task = t
  /\ tasks[t].st \in {"created", "delay", "frame"}
  /\ tasks[t].cancel = "none"

\* C33: the frame loop of an animation started on one of its frames only
\* dereferences and plays frames of the animation it is on: the index it
\* sleeps on and the index it hands to play_frame are in [0, number of
\* frames); a next index at or beyond the end (sequential advance, branch
\* target or exit index) ends the animation rather than being indexed, so
\* the loop never fails on an index
C33_FrameIndexInRange ==
  [][\A t \in 1 .. Len(tasks) :
       FrameLoopStep(t) =>
         /\ tasks'[t].st = "frame" => tasks'[t].frame_idx \in FrameIndexes(tasks'[t].anim)
         /\ obs'.play_frame # NoCall =>
              obs'.play_frame[3] \in FrameIndexes(obs'.play_frame[2])
         /\ (tasks[t].st = "frame" /\ obs'.next_idx \notin FrameIndexes(tasks[t].anim)) =>
              /\ obs'.next_idx >= Len(frames(tasks[t].anim))
              /\ tasks'[t].result = "error" => ReturnMissing(tasks[t].anim)
              /\ tasks'[t].st = "frame" =>
                   /\ tasks'[t].anim # tasks[t].anim
                   /\ tasks'[t].frame_idx = 0
         /\ (tasks[t].st = "frame" /\ obs'.next_idx \in FrameIndexes(tasks[t].anim)) =>
              /\ tasks'[t].st = "frame"
              /\ tasks'[t].anim = tasks[t].anim
              /\ tasks'[t].frame_idx = obs'.next_idx
         /\ (tasks[t].st \in {"created", "delay"}
               /\ tasks[t].starting_frame \in FrameIndexes(tasks[t].anim)) =>
              tasks'[t].result # "error"
  ]_vars

\* a branch of the last frame of GREET points at frame 7 of 3: the playback
\* ended there and returned true
C33_Witness ==
  /\ obs.task # 0
  /\ obs.next_idx = 7
  /\ obs.by \in {"rand", "sequence"}
  /\ tasks[obs.task].st = "done"
  /\ tasks[obs.task].result = "true"

\* the exit index of the last frame of GREET is 3 of 3: the playback ended
C33_WitnessExit ==
  /\ obs.task # 0
  /\ obs.next_idx = 3
  /\ obs.by = "exit"
  /\ tasks[obs.task].st = "done"
  /\ tasks[obs.task].result = "true"

\* C34: while the task of the last play_animation is still running, an exit
\* request stays set through every step of another task: the unwinding of a
\* superseded animation does not clear exit_requested
C34_ExitRequestKept ==
  [][(/\ obs'.task # 0
      /\ obs'.task # _anim_task.task
      /\ _anim_task.task # 0
      /\ _anim_task' = _anim_task
      /\ tasks'[_anim_task.task].st # "done"
      /\ exit_requested) => exit_requested']_vars

\* C35: while the task of the last play_animation is still running it stays
\* the controller's current task through every step of another task: what
\* a superseded task does while it unwinds never replaces _anim_task
C35_CurrentTaskKept ==
  [][(/\ obs'.task # 0
      /\ obs'.task # _anim_task.task
      /\ _anim_task.task # 0
      /\ tasks[_anim_task.task].st # "done") => _anim_task' = _anim_task]_vars

\* the tasks that are live and have not been asked to cancel
LiveTasks == { t \in 1 .. Len(tasks) : tasks[t].st # "done" /\ tasks[t].cancel = "none" }

\* C35: at most one animation task that has not been asked to cancel is live
C35_OneLiveTask == Cardinality(LiveTasks) <= 1

\* C36: the step that delivers a cancellation with reason StopAnimation or
\* Stop to a task that is in its reappear animation (waiting for it or
\* playing it) ends the task with result false and calls no play_animation
C36_ReappearStopped ==
  [][\A t \in 1 .. Len(tasks) :
       (/\ obs'.task = t
        /\ tasks[t].st = "unwinding"
        /\ tasks[t].outer # << >>
        /\ tasks[t].cancel \in {StopAnimation, Stop}) =>
          /\ tasks'[t].st = "done"
          /\ tasks'[t].result = "false"
          /\ ~obs'.play_animation]_vars

\* C37: a task that was asked to cancel with reason StopAnimation or Stop
\* before its first step ends with result false at that step and has played
\* no frame, so that awaiting its handle returns false
C37_StoppedBeforeStart ==
  [][\A t \in 1 .. Len(tasks) :
       (/\ obs'.task = t
        /\ tasks[t].st = "created"
        /\ tasks[t].cancel \in {StopAnimation, Stop}) =>
          /\ tasks'[t].st = "done"
          /\ tasks'[t].result = "false"
          /\ t \notin played']_vars

\* C38: the reason given to stop_animation for a task made from another
\* thread is the reason that task's cancellation handler sees, and the task
\* ends with result false
C38_ReasonReachesHandler ==
  [][\A t \in 1 .. Len(tasks) :
       (/\ obs'.task = t
        /\ tasks[t].st = "unwinding"
        /\ tasks[t].wrapper = "cancelled"
        /\ tasks[t].wrapper_msg \in {StopAnimation, Stop}) =>
          /\ obs'.handler = tasks[t].wrapper_msg
          /\ tasks'[t].result = "false"]_vars

\* C38, on the worker thread: the reason given to stop_animation for a task
\* made on the worker thread is the reason its handler sees
C38_ReasonReachesHandlerOnWorker ==
  [][\A t \in 1 .. Len(tasks) :
       (/\ obs'.task = t
        /\ tasks[t].st = "unwinding"
        /\ tasks[t].wrapper = "none"
        /\ tasks[t].cancel \in {StopAnimation, Stop}) =>
          /\ obs'.handler = tasks[t].cancel
          /\ tasks'[t].result \in {"false", "true"}]_vars

\* literals, then one back-reference of the nearest class whose distance is
\* more than the number of bytes decoded before it, then the end
CopyBeforeStart(toks) ==
  /\ Len(toks) >= 3
  /\ \A j \in 1 .. Len(toks) - 2 : toks[j].kind = "literal"
  /\ toks[Len(toks) - 1].kind = "raw"
  /\ toks[Len(toks) - 1].k = 0
  /\ toks[Len(toks) - 1].m < SECOND_RUN_LIMIT
  /\ toks[Len(toks) - 1].field + 1 > Len(toks) - 2
  /\ toks[Len(toks)].kind = "end"

\* C39: a back-reference whose distance is more than the number of bytes
\* decoded so far makes decompress fail: it copies no byte from a place
\* outside the decoded prefix of the output
C39_CopyFromDecodedPrefix ==
  (codec.st = "decompressed" /\ "toks" \in DOMAIN codec /\ CopyBeforeStart(codec.toks)) =>
    ~codec.out.ok

RECURSIVE Produced(_)
\* the number of bytes the tokens toks stand for, up to the end of the stream
Produced(toks) ==
  IF toks = << >> THEN 0
  ELSE IF Head(toks).kind = "end" THEN 0
  ELSE IF Head(toks).kind = "literal" THEN 1 + Produced(Tail(toks))
  ELSE (IF Head(toks).k = 3 THEN 3 ELSE 2) + (2 ^ Head(toks).m - 1) + Head(toks).add2
         + Produced(Tail(toks))

\* C40: decompress(data, buffer_size) returns at most buffer_size bytes, and
\* fails when the literals and copies of the stream stand for more bytes
\* than buffer_size; when they fit it returns all of them
C40_WithinBuffer ==
  (codec.st = "decompressed" /\ "toks" \in DOMAIN codec) =>
    /\ codec.out.ok => Len(codec.out.bytes) <= codec.buffer_size
    /\ Produced(codec.toks) > codec.buffer_size => ~codec.out.ok
    /\ Produced(codec.toks) <= codec.buffer_size =>
         (codec.out.ok /\ Len(codec.out.bytes) = Produced(codec.toks))

\* a literal and a copy of 5 bytes in a buffer of 5: the last byte has no
\* place, and the call failed
C40_Witness ==
  /\ codec.st = "decompressed"
  /\ "toks" \in DOMAIN codec
  /\ codec.toks = << Literal(170), RawCopy(0, 0, 2, 0), EndOfStream >>
  /\ codec.buffer_size = 5
  /\ ~codec.out.ok

====
